---- MODULE Spec2Model ----
(***************************************************************************)
(* A model of the mod.io download client: the storage manager that keeps   *)
(* track of downloaded and installed mods (storage/manager.py and          *)
(* storage/models.py), the concurrent downloader (downloader_client) and   *)
(* the installer (installer/installer.py), as main.py drives them.         *)
(***************************************************************************)
EXTENDS Integers, Sequences, FiniteSets, TLC

(***************************************************************************)
(* Bounds of the model.                                                    *)
(***************************************************************************)
\* mod-file ids are 1..MaxFileId
MaxFileId == 2
\* file contents are the byte strings of 0..MaxContent bytes, numbered by
\* their length (0 is the empty file)
MaxContent == 1
\* longest batch of results handed to an update_* call
MaxBatch == 2
\* number of runs of the program
MaxCycles == 3
\* number of changes from outside between two runs: of the files, of the
\* subscriptions or of the live file of a mod
MaxTamper == 1

Games == {"bonelab"}
Mods == {"m1", "m2"}
\* the mods the calls on the storage manager are about
ManagedMods == {"m1"}
FileIds == 1..MaxFileId
Contents == 0..MaxContent
\* names of the directories inside an archive
DirNames == {"Win", "PC", "Quest", "Oculus", "Mod", "PCQuest"}
\* names of the content folders the storage manager is told of
ContentNames == {"Win", "Mod"}

(***************************************************************************)
(* Optional values (Python's X | None): <<>> is None, <<x>> holds x.       *)
(***************************************************************************)
None == <<>>
Some(x) == <<x>>
IsSome(o) == o # <<>>
Get(o) == o[1]

(***************************************************************************)
(* The filesystem: every path is absent, a regular file with a content, or *)
(* a directory.                                                            *)
(***************************************************************************)
DOWNLOADS_PATH == "downloads"
MODS_FOLDER == "Mods"

\* main.py: DOWNLOADS_PATH / game.name_id / mod.name_id / filename.  The
\* filename is made of the game, the mod, the version string of the mod
\* file and the platform, with the suffixes of the uploaded file: the mod
\* files of a mod are taken to have the same version string and suffixes
\* (the version is free text, often left as it was), so they share a path
DownloadFilePath(game, mod) == <<DOWNLOADS_PATH, game, mod>>
\* installer.py: mods_dir / content.name
InstalledPath(name) == <<MODS_FOLDER, name>>

ArchivePaths == {DownloadFilePath(g, m) : g \in Games, m \in Mods}
InstallPaths == {InstalledPath(n) : n \in ContentNames}
\* a content folder is a directory of the archive or the extraction
\* directory itself, which is named after the archive
Paths == ArchivePaths \cup {InstalledPath(n) : n \in DirNames \cup Mods}

Absent == [kind |-> "absent", data |-> 0]
Dir == [kind |-> "dir", data |-> 0]
\* a directory that holds files besides those, or other than those, a copy
\* of a content folder puts there
Stale == [kind |-> "dir", data |-> 1]
File(c) == [kind |-> "file", data |-> c]

exists(files, p) == files[p].kind # "absent"
is_file(files, p) == files[p].kind = "file"
is_dir(files, p) == files[p].kind = "dir"

\* hashlib.md5 of the contents 0, 1, 2, ... (the byte strings b'', b'a', b'aa', ...)
Md5Digests == << "d41d8cd98f00b204e9800998ecf8427e", "0cc175b9c0f1b6a831c399e269772661",
                 "4124bc0a9335c27f086f24ba207a4912", "47bce5c74f589f4867dbd57e9ca9f808",
                 "74b87337454200d4d33f80c4663dc5e5" >>

\* ModStorageManager._hash_md5 of a path that is a regular file
_hash_md5(files, p) == Md5Digests[files[p].data + 1]

\* utils.files.nuke_path
nuke_path(files, p) ==
    IF ~exists(files, p) THEN files
    ELSE [files EXCEPT ![p] = Absent]

RECURSIVE nuke_paths(_, _)
nuke_paths(files, ps) ==
    IF ps = <<>> THEN files
    ELSE nuke_paths(nuke_path(files, Head(ps)), Tail(ps))

(***************************************************************************)
(* storage/models.py                                                       *)
(***************************************************************************)
DownloadedManagedMod(id, path, hash) ==
    [mod_file_id |-> id, file_path |-> path, file_hash |-> hash]
InstalledManagedMod(id, paths) ==
    [mod_file_id |-> id, installed_paths |-> paths]
ManagedMod(d, i) == [downloaded_mod |-> d, installed_mod |-> i]

\* Storage(): no game
EmptyStorage == [g \in {} |-> <<>>]

all_paths_present(files, inst) ==
    \A k \in 1..Len(inst.installed_paths) : is_dir(files, inst.installed_paths[k])

contains_info(mm) == IsSome(mm.downloaded_mod) \/ IsSome(mm.installed_mod)

\* a has_mod_file_downloaded that forgets to compare the mod-file id
has_any_file_downloaded(mm, id) == IsSome(mm.downloaded_mod)

has_mod_file_downloaded(mm, id) ==
    IsSome(mm.downloaded_mod) /\ Get(mm.downloaded_mod).mod_file_id = id

\* a has_mod_file_installed that does not look at the installed paths
has_mod_file_installed_on_record(files, mm, id) ==
    IsSome(mm.installed_mod) /\ Get(mm.installed_mod).mod_file_id = id

has_mod_file_installed(files, mm, id) ==
    /\ IsSome(mm.installed_mod)
    /\ Get(mm.installed_mod).mod_file_id = id
    /\ all_paths_present(files, Get(mm.installed_mod))

read_managed_mod(st, g, m) ==
    IF g \in DOMAIN st /\ m \in DOMAIN st[g] THEN Some(st[g][m]) ELSE None

write_managed_mod(st, g, m, mm) ==
    LET old == IF g \in DOMAIN st THEN st[g] ELSE [x \in {} |-> <<>>]
        new == [x \in (DOMAIN old) \cup {m} |-> IF x = m THEN mm ELSE old[x]]
    IN  [y \in (DOMAIN st) \cup {g} |-> IF y = g THEN new ELSE st[y]]

(***************************************************************************)
(* The persisted document storage.json: pydantic's model_dump_json writes  *)
(* an absent field as null, parse_file reads it back.  In the document an  *)
(* optional field is the set {} (null) or {value}.                         *)
(***************************************************************************)
DumpOptional(o) == IF IsSome(o) THEN {Get(o)} ELSE {}
ParseOptional(s) == IF s = {} THEN None ELSE Some(CHOOSE x \in s : TRUE)

model_dump_json(st) ==
    [games |-> [g \in DOMAIN st |-> [m \in DOMAIN st[g] |->
        [downloaded_mod |-> DumpOptional(st[g][m].downloaded_mod),
         installed_mod |-> DumpOptional(st[g][m].installed_mod)]]]]

parse_file(doc) ==
    [g \in DOMAIN doc.games |-> [m \in DOMAIN doc.games[g] |->
        ManagedMod(ParseOptional(doc.games[g][m].downloaded_mod),
                   ParseOptional(doc.games[g][m].installed_mod))]]

(***************************************************************************)
(* storage/manager.py: validation                                          *)
(***************************************************************************)
\* a _verify_downloaded_mod that checks the file is there, not its hash
_verify_downloaded_mod_unhashed(files, d) ==
    IF ~IsSome(d) THEN None
    ELSE IF ~is_file(files, Get(d).file_path) THEN None
    ELSE d

_verify_downloaded_mod(files, d) ==
    IF ~IsSome(d) THEN None
    ELSE IF ~is_file(files, Get(d).file_path) THEN None
    ELSE IF _hash_md5(files, Get(d).file_path) = Get(d).file_hash THEN d
    ELSE None

_verify_installed_mod(files, i) ==
    IF ~IsSome(i) THEN None
    ELSE IF all_paths_present(files, Get(i)) THEN i
    ELSE None

\* a _validate_entry that keeps the two parts of an entry only together
_validate_entry_together(files, mm) ==
    IF /\ _verify_downloaded_mod(files, mm.downloaded_mod) = mm.downloaded_mod
       /\ _verify_installed_mod(files, mm.installed_mod) = mm.installed_mod
    THEN mm
    ELSE ManagedMod(None, None)

_validate_entry(files, mm) ==
    ManagedMod(_verify_downloaded_mod(files, mm.downloaded_mod),
               _verify_installed_mod(files, mm.installed_mod))

\* a validate that tests contains_info on the stored entry, not on the
\* validated one
validate_stored_info(st, files) ==
    LET kept(g) == {m \in DOMAIN st[g] : contains_info(st[g][m])}
    IN  [g \in {x \in DOMAIN st : kept(x) # {}} |->
            [m \in kept(g) |-> _validate_entry(files, st[g][m])]]

\* a validate that writes every validated entry
validate_keeping_all(st, files) ==
    [g \in DOMAIN st |-> [m \in DOMAIN st[g] |-> _validate_entry(files, st[g][m])]]

\* the storage that validate() assigns to self._storage
validate(st, files) ==
    LET kept(g) == {m \in DOMAIN st[g] : contains_info(_validate_entry(files, st[g][m]))}
    IN  [g \in {x \in DOMAIN st : kept(x) # {}} |->
            [m \in kept(g) |-> _validate_entry(files, st[g][m])]]

(***************************************************************************)
(* storage/manager.py: queries                                             *)
(***************************************************************************)
\* a needs_download that is false only when the id is both installed and
\* downloaded
needs_download_unless_both(st, files, g, m, id) ==
    LET mod == read_managed_mod(st, g, m)
    IN  IF ~IsSome(mod) THEN TRUE
        ELSE ~(/\ has_mod_file_installed(files, Get(mod), id)
               /\ has_mod_file_downloaded(Get(mod), id))

\* a needs_download that looks at the installation only
needs_download_unless_installed(st, files, g, m, id) ==
    LET mod == read_managed_mod(st, g, m)
    IN  IF ~IsSome(mod) THEN TRUE
        ELSE ~has_mod_file_installed(files, Get(mod), id)

needs_download(st, files, g, m, id) ==
    LET mod == read_managed_mod(st, g, m)
    IN  IF ~IsSome(mod) THEN TRUE
        ELSE /\ ~has_mod_file_installed(files, Get(mod), id)
             /\ ~has_mod_file_downloaded(Get(mod), id)

needs_installation(st, files, g, m, id) ==
    LET mod == read_managed_mod(st, g, m)
    IN  IF ~IsSome(mod) THEN FALSE
        ELSE ~has_mod_file_installed(files, Get(mod), id)

\* a subscribed mod as the API returns it: its name_id and, when it has an
\* entry for the target platform, that entry's modfile_live
SubscribedMod(m, live) == [name_id |-> m, modfile_live |-> live]

InstallationTask(path, g, m, id) ==
    [downloaded_path |-> path, game_name_id |-> g, mod_name_id |-> m, mod_file_id |-> id]

\* Mod.get_platform: next(filter(...)) raises StopIteration when the mod has
\* no entry for the platform
RECURSIVE InstallTasksFrom(_, _, _, _, _)
InstallTasksFrom(managed, files, g, mods, k) ==
    IF k > Len(mods) THEN [exc |-> "none", tasks |-> <<>>]
    ELSE IF ~IsSome(mods[k].modfile_live) THEN [exc |-> "StopIteration", tasks |-> <<>>]
    ELSE LET id == Get(mods[k].modfile_live)
             m == mods[k].name_id
             rest == InstallTasksFrom(managed, files, g, mods, k + 1)
         IN  IF rest.exc # "none" THEN rest
             ELSE IF m \notin DOMAIN managed THEN rest
             ELSE IF /\ has_mod_file_downloaded(managed[m], id)
                     /\ ~has_mod_file_installed(files, managed[m], id)
                  THEN [exc |-> "none",
                        tasks |-> <<InstallationTask(Get(managed[m].downloaded_mod).file_path,
                                                     g, m, id)>> \o rest.tasks]
                  ELSE rest

\* a generate_mod_install_tasks that asks for a downloaded_mod of any
\* mod-file id
RECURSIVE InstallTasksOfAnyDownloadFrom(_, _, _, _, _)
InstallTasksOfAnyDownloadFrom(managed, files, g, mods, k) ==
    IF k > Len(mods) THEN [exc |-> "none", tasks |-> <<>>]
    ELSE IF ~IsSome(mods[k].modfile_live) THEN [exc |-> "StopIteration", tasks |-> <<>>]
    ELSE LET id == Get(mods[k].modfile_live)
             m == mods[k].name_id
             rest == InstallTasksOfAnyDownloadFrom(managed, files, g, mods, k + 1)
         IN  IF rest.exc # "none" THEN rest
             ELSE IF m \notin DOMAIN managed THEN rest
             ELSE IF /\ IsSome(managed[m].downloaded_mod)
                     /\ ~has_mod_file_installed(files, managed[m], id)
                  THEN [exc |-> "none",
                        tasks |-> <<InstallationTask(Get(managed[m].downloaded_mod).file_path,
                                                     g, m, id)>> \o rest.tasks]
                  ELSE rest

generate_mod_install_tasks_of_any_download(st, files, g, mods) ==
    IF g \notin DOMAIN st THEN [exc |-> "none", tasks |-> <<>>]
    ELSE InstallTasksOfAnyDownloadFrom(st[g], files, g, mods, 1)

generate_mod_install_tasks(st, files, g, mods) ==
    IF g \notin DOMAIN st THEN [exc |-> "none", tasks |-> <<>>]
    ELSE InstallTasksFrom(st[g], files, g, mods, 1)

(***************************************************************************)
(* Results of the pipelines (downloader_client/task.py, installer/task.py) *)
(***************************************************************************)
DownloadTask(g, m, id) ==
    [download_file_path |-> DownloadFilePath(g, m), game |-> g, mod |-> m, mod_file |-> id]
DownloadResultOk(task) == [task |-> task, result |-> [tag |-> "Ok"]]
DownloadResultError(task, reason) ==
    [task |-> task, result |-> [tag |-> "Error", reason |-> reason]]

InstallationResultOk(task, paths) ==
    [task |-> task, result |-> [tag |-> "Ok", installed_paths |-> paths]]
InstallationResultFail(task, reason) ==
    [task |-> task, result |-> [tag |-> "Fail", reason |-> reason]]

\* an is_ok that holds of every result
is_ok_always(r) == r.result.tag \in {"Ok", "Error", "Fail"}

\* DownloadResult.is_ok, InstallationResult.is_ok
is_ok(r) == r.result.tag = "Ok"

(***************************************************************************)
(* storage/manager.py: update_downloaded_mods.  The loop over the batch,   *)
(* from result k on; the outcome is the in-memory storage the call leaves, *)
(* the exception it raises ("none" when it returns) and the result the     *)
(* exception names.  _save_to_file runs only when the loop completes.      *)
(***************************************************************************)
RECURSIVE UpdateDownloadedFrom(_, _, _, _)
UpdateDownloadedFrom(st, files, results, k) ==
    IF k > Len(results) THEN [storage |-> st, exc |-> "none", named |-> None]
    ELSE LET r == results[k]
             g == r.task.game
             m == r.task.mod
             path == r.task.download_file_path
         IN  IF ~is_ok(r)
             THEN [storage |-> st, exc |-> "StorageUpdateException", named |-> Some(r)]
             ELSE IF ~is_file(files, path)
             THEN \* open(file_path, mode='rb') in _hash_md5 fails
                  [storage |-> st, exc |-> "OSError", named |-> None]
             ELSE LET d == DownloadedManagedMod(r.task.mod_file, path, _hash_md5(files, path))
                      old == read_managed_mod(st, g, m)
                      mm == IF ~IsSome(old) THEN ManagedMod(Some(d), None)
                            ELSE [Get(old) EXCEPT !.downloaded_mod = Some(d)]
                  IN  UpdateDownloadedFrom(write_managed_mod(st, g, m, mm), files, results, k + 1)

\* an update_downloaded_mods that writes a new ManagedMod for each result,
\* without the installed_mod of the one it replaces
RECURSIVE UpdateDownloadedResettingFrom(_, _, _, _)
UpdateDownloadedResettingFrom(st, files, results, k) ==
    IF k > Len(results) THEN [storage |-> st, exc |-> "none", named |-> None]
    ELSE LET r == results[k]
             path == r.task.download_file_path
         IN  IF ~is_ok(r)
             THEN [storage |-> st, exc |-> "StorageUpdateException", named |-> Some(r)]
             ELSE IF ~is_file(files, path)
             THEN [storage |-> st, exc |-> "OSError", named |-> None]
             ELSE UpdateDownloadedResettingFrom(
                      write_managed_mod(st, r.task.game, r.task.mod,
                          ManagedMod(Some(DownloadedManagedMod(r.task.mod_file, path,
                                                               _hash_md5(files, path))),
                                     None)),
                      files, results, k + 1)

update_downloaded_mods_resetting(st, files, results) ==
    UpdateDownloadedResettingFrom(st, files, results, 1)

update_downloaded_mods(st, files, results) == UpdateDownloadedFrom(st, files, results, 1)

(***************************************************************************)
(* storage/manager.py: update_installed_mods                               *)
(***************************************************************************)
\* an update_installed_mods loop that creates the ManagedMod it does not
\* find, as update_downloaded_mods does
RECURSIVE UpdateInstalledCreatingFrom(_, _, _)
UpdateInstalledCreatingFrom(st, results, k) ==
    IF k > Len(results) THEN [storage |-> st, exc |-> "none", named |-> None]
    ELSE LET r == results[k]
             g == r.task.game_name_id
             m == r.task.mod_name_id
         IN  IF ~is_ok(r)
             THEN [storage |-> st, exc |-> "StorageUpdateException", named |-> Some(r)]
             ELSE LET i == InstalledManagedMod(r.task.mod_file_id, r.result.installed_paths)
                      old == read_managed_mod(st, g, m)
                      mm == IF ~IsSome(old) THEN ManagedMod(None, Some(i))
                            ELSE [Get(old) EXCEPT !.installed_mod = Some(i)]
                  IN  UpdateInstalledCreatingFrom(write_managed_mod(st, g, m, mm),
                                                  results, k + 1)

RECURSIVE UpdateInstalledFrom(_, _, _)
UpdateInstalledFrom(st, results, k) ==
    IF k > Len(results) THEN [storage |-> st, exc |-> "none", named |-> None]
    ELSE LET r == results[k]
             g == r.task.game_name_id
             m == r.task.mod_name_id
         IN  IF ~is_ok(r)
             THEN [storage |-> st, exc |-> "StorageUpdateException", named |-> Some(r)]
             ELSE LET i == InstalledManagedMod(r.task.mod_file_id, r.result.installed_paths)
                      old == read_managed_mod(st, g, m)
                  IN  IF ~IsSome(old)
                      THEN [storage |-> st, exc |-> "ValueError", named |-> None]
                      ELSE UpdateInstalledFrom(
                               write_managed_mod(st, g, m,
                                   [Get(old) EXCEPT !.installed_mod = Some(i)]),
                               results, k + 1)

\* an update_installed_mods that skips the non-Ok results of the batch
update_installed_mods_skipping(st, results) ==
    UpdateInstalledFrom(st, SelectSeq(results, is_ok), 1)

update_installed_mods(st, results) == UpdateInstalledFrom(st, results, 1)

(***************************************************************************)
(* storage/manager.py: remove_unsubscribed_mods                            *)
(***************************************************************************)
\* Storage.get_managed_mods_for_game: the game's dict, KeyError without one
get_managed_mods_for_game(st, g) ==
    IF g \in DOMAIN st THEN [exc |-> "none", mods |-> st[g]]
    ELSE [exc |-> "KeyError", mods |-> <<>>]

\* Storage.replace_managed_mods
replace_managed_mods(st, g, managed) ==
    [y \in (DOMAIN st) \cup {g} |-> IF y = g THEN managed ELSE st[y]]

\* a _remove_managed_mod_files that leaves the downloaded archive
_remove_installed_files(files, mm) ==
    IF IsSome(mm.installed_mod)
    THEN nuke_paths(files, Get(mm.installed_mod).installed_paths)
    ELSE files

_remove_managed_mod_files(files, mm) ==
    LET f1 == IF IsSome(mm.installed_mod)
              THEN nuke_paths(files, Get(mm.installed_mod).installed_paths)
              ELSE files
    IN  IF IsSome(mm.downloaded_mod)
        THEN nuke_path(f1, Get(mm.downloaded_mod).file_path)
        ELSE f1

\* the loop over managed_unsubscribed_mod_set (a set: any order)
RECURSIVE RemoveFilesOf(_, _, _)
RemoveFilesOf(files, managed, names) ==
    IF names = {} THEN files
    ELSE LET n == CHOOSE x \in names : TRUE
         IN  RemoveFilesOf(_remove_managed_mod_files(files, managed[n]), managed, names \ {n})

remove_unsubscribed_mods(st, files, g, subs) ==
    LET got == get_managed_mods_for_game(st, g)
    IN  IF got.exc = "KeyError"
        THEN [storage |-> st, files |-> files, saved |-> FALSE, ret |-> {}]
        ELSE LET subscribed == {subs[k].name_id : k \in 1..Len(subs)}
                 unsubscribed == (DOMAIN got.mods) \ subscribed
                 left == [m \in (DOMAIN got.mods) \ unsubscribed |-> got.mods[m]]
             IN  [storage |-> replace_managed_mods(st, g, left),
                  files |-> RemoveFilesOf(files, got.mods, unsubscribed),
                  saved |-> TRUE,
                  ret |-> unsubscribed]

(***************************************************************************)
(* downloader_client/client.py: the destination file of a download         *)
(***************************************************************************)
\* open(path, mode='wb'): opening a directory raises, anything else is
\* created or truncated to the empty file
open_wb(files, p) ==
    IF is_dir(files, p) THEN [exc |-> "IsADirectoryError", files |-> files]
    ELSE [exc |-> "none", files |-> [files EXCEPT ![p] = File(0)]]

\* what the GET of a download url comes to before the body is read: a
\* response with a Content-Length, a non-success status (raise_for_status),
\* a failure of the transport, a response without a Content-Length header
Responses == {"ok", "HTTPStatusError", "ConnectError", "KeyError"}

(***************************************************************************)
(* installer/installer.py.  A directory of an extracted archive is the     *)
(* sequence of the names that lead to it from the extraction directory;    *)
(* <<>> is the extraction directory itself.  A tree is the set of its      *)
(* directories and the set of those that hold a file pallet.json.          *)
(***************************************************************************)
\* an archive holds at most MaxDirs directories
MaxDirs == 2

\* Path.stem of an archive: main.py names the archive after its game and mod
Stem(p) == p[3]

Tree(ds, ps) == [dirs |-> ds, pallets |-> ps]
EmptyTree == Tree({}, {})

\* the sets of at most n directories an archive can hold
RECURSIVE ShapesOf(_)
ShapesOf(n) ==
    IF n = 0 THEN {{}}
    ELSE LET smaller == ShapesOf(n - 1)
         IN  smaller \cup
             UNION {{ds \cup {Append(p, name)} : p \in ds \cup {<<>>}, name \in DirNames} :
                        ds \in smaller}

Trees == UNION {{Tree(ds, ps) : ps \in SUBSET (ds \cup {<<>>})} : ds \in ShapesOf(MaxDirs)}

\* the orders Path.iterdir may list the entries of the directories of a
\* tree in: the orders of the names that occur in the tree
Orders(tree) ==
    LET names == {p[Len(p)] : p \in tree.dirs}
    IN  {o \in [1..Cardinality(names) -> names] : {o[i] : i \in DOMAIN o} = names}

\* the characters of a directory name
Spelling(name) ==
    CASE name = "Win" -> <<"W", "i", "n">>
      [] name = "PC" -> <<"P", "C">>
      [] name = "Quest" -> <<"Q", "u", "e", "s", "t">>
      [] name = "Oculus" -> <<"O", "c", "u", "l", "u", "s">>
      [] name = "Mod" -> <<"M", "o", "d">>
      [] name = "PCQuest" -> <<"P", "C", "Q", "u", "e", "s", "t">>

\* str(p.relative_to(root)): the names joined by the separator
RECURSIVE RelativePath(_)
RelativePath(p) ==
    IF Len(p) = 0 THEN <<".">>
    ELSE IF Len(p) = 1 THEN Spelling(p[1])
    ELSE Spelling(p[1]) \o <<"/">> \o RelativePath(Tail(p))

\* str.lower
LowerChar(c) ==
    CASE c = "W" -> "w"
      [] c = "P" -> "p"
      [] c = "C" -> "c"
      [] c = "Q" -> "q"
      [] c = "O" -> "o"
      [] c = "M" -> "m"
      [] OTHER -> c
lower(s) == [i \in 1..Len(s) |-> LowerChar(s[i])]

_PLATFORM_KEYWORDS == << <<"w", "i", "n">>, <<"p", "c">> >>
_BANNED_PLATFORM_KEYWORDS ==
    << <<"q", "u", "e", "s", "t">>, <<"o", "c", "u", "l", "u", "s">>,
       <<"a", "n", "d", "r", "o", "i", "d">> >>

\* keyword in s
Contains(keyword, s) ==
    \E i \in 1..(Len(s) - Len(keyword) + 1) : SubSeq(s, i, i + Len(keyword) - 1) = keyword

_contains_keyword(s, keywords) ==
    \E j \in 1..Len(keywords) : Contains(keywords[j], lower(s))

RECURSIVE _locate_possible_content_folders(_, _, _)
RECURSIVE LocateInEntries(_, _, _, _)

\* a search that goes on below a directory that holds pallet.json
_locate_possible_content_folders_descending(tree, order, p) ==
    (IF p \in tree.pallets THEN <<p>> ELSE <<>>) \o LocateInEntries(tree, order, p, 1)

\* _locate_possible_content_folders(p), and its map over the directories
\* of p that iterdir lists from position i of the order on
_locate_possible_content_folders(tree, order, p) ==
    IF p \in tree.pallets THEN <<p>>
    ELSE LocateInEntries(tree, order, p, 1)
LocateInEntries(tree, order, p, i) ==
    IF i > Len(order) THEN <<>>
    ELSE (IF Append(p, order[i]) \in tree.dirs
          THEN _locate_possible_content_folders(tree, order, Append(p, order[i]))
          ELSE <<>>)
         \o LocateInEntries(tree, order, p, i + 1)

\* a predicate that lets any keyword in: a banned one is as good as an
\* allowed one
predicate_any_keyword(p) ==
    IF _contains_keyword(RelativePath(p), _PLATFORM_KEYWORDS) THEN "True"
    ELSE IF _contains_keyword(RelativePath(p), _BANNED_PLATFORM_KEYWORDS) THEN "True"
    ELSE "ValueError"

\* a predicate that tests the banned keywords first
predicate_banned_first(p) ==
    IF _contains_keyword(RelativePath(p), _BANNED_PLATFORM_KEYWORDS) THEN "False"
    ELSE IF _contains_keyword(RelativePath(p), _PLATFORM_KEYWORDS) THEN "True"
    ELSE "ValueError"

\* predicate of _attempt_platform_partition
predicate(p) ==
    IF _contains_keyword(RelativePath(p), _PLATFORM_KEYWORDS) THEN "True"
    ELSE IF _contains_keyword(RelativePath(p), _BANNED_PLATFORM_KEYWORDS) THEN "False"
    ELSE "ValueError"

\* utils.containers.binary_partition with that predicate, from element k on
RECURSIVE binary_partition(_, _, _, _)
binary_partition(elements, k, elements_true, elements_false) ==
    IF k > Len(elements)
    THEN [exc |-> "none", accepted |-> elements_true, ignored |-> elements_false]
    ELSE CASE predicate(elements[k]) = "True" ->
                binary_partition(elements, k + 1, Append(elements_true, elements[k]),
                                 elements_false)
           [] predicate(elements[k]) = "False" ->
                binary_partition(elements, k + 1, elements_true,
                                 Append(elements_false, elements[k]))
           [] OTHER -> [exc |-> "ValueError", accepted |-> <<>>, ignored |-> <<>>]

_attempt_platform_partition(paths) == binary_partition(paths, 1, <<>>, <<>>)

Selected(folders) == [exc |-> "none", reason |-> "", folders |-> folders]
ModInstallerException(reason) ==
    [exc |-> "ModInstallerException", reason |-> reason, folders |-> <<>>]

\* a _get_selected_content_folders that filters a single candidate by
\* keyword too
_get_selected_content_folders_filtering(tree, order) ==
    LET possible_content_folders == _locate_possible_content_folders(tree, order, <<>>)
        partition == _attempt_platform_partition(possible_content_folders)
    IN  IF Len(possible_content_folders) = 0
        THEN ModInstallerException("NO_PALLET_FOUND")
        ELSE IF partition.exc = "none" THEN Selected(partition.accepted)
        ELSE Selected(possible_content_folders)

\* a _get_selected_content_folders that wants exactly one candidate left
\* by the partition
_get_selected_content_folders_single(tree, order) ==
    LET possible_content_folders == _locate_possible_content_folders(tree, order, <<>>)
        partition == _attempt_platform_partition(possible_content_folders)
    IN  IF Len(possible_content_folders) = 1 THEN Selected(possible_content_folders)
        ELSE IF Len(possible_content_folders) = 0
        THEN ModInstallerException("NO_PALLET_FOUND")
        ELSE IF partition.exc # "none" THEN Selected(possible_content_folders)
        ELSE IF Len(partition.accepted) > 1
        THEN ModInstallerException("TOO_MANY_FILTERED_PALLETS_FOUND")
        ELSE Selected(partition.accepted)

\* a _get_selected_content_folders that selects nothing, without failing,
\* when there is no candidate
_get_selected_content_folders_lenient(tree, order) ==
    LET possible_content_folders == _locate_possible_content_folders(tree, order, <<>>)
        partition == _attempt_platform_partition(possible_content_folders)
    IN  IF Len(possible_content_folders) <= 1 THEN Selected(possible_content_folders)
        ELSE IF partition.exc = "none" THEN Selected(partition.accepted)
        ELSE Selected(possible_content_folders)

\* a _get_selected_content_folders that fails when the candidates cannot
\* be partitioned
_get_selected_content_folders_or_fail(tree, order) ==
    LET possible_content_folders == _locate_possible_content_folders(tree, order, <<>>)
        partition == _attempt_platform_partition(possible_content_folders)
    IN  IF Len(possible_content_folders) = 1 THEN Selected(possible_content_folders)
        ELSE IF Len(possible_content_folders) = 0
        THEN ModInstallerException("NO_PALLET_FOUND")
        ELSE IF partition.exc = "none" THEN Selected(partition.accepted)
        ELSE ModInstallerException("TOO_MANY_FILTERED_PALLETS_FOUND")

_get_selected_content_folders(tree, order) ==
    LET possible_content_folders == _locate_possible_content_folders(tree, order, <<>>)
        partition == _attempt_platform_partition(possible_content_folders)
    IN  IF Len(possible_content_folders) = 1 THEN Selected(possible_content_folders)
        ELSE IF Len(possible_content_folders) = 0
        THEN ModInstallerException("NO_PALLET_FOUND")
        ELSE IF partition.exc = "none" THEN Selected(partition.accepted)
        ELSE Selected(possible_content_folders)

\* content.name: the extraction directory is named after the archive
ContentName(stem, p) == IF Len(p) = 0 THEN stem ELSE p[Len(p)]

\* a copy into the destination as it is found: the files of a directory
\* that is there already stay
_copy_to_mods_dir_merging(files, name) ==
    IF is_dir(files, InstalledPath(name)) THEN files
    ELSE [files EXCEPT ![InstalledPath(name)] = Dir]

\* _copy_to_mods_dir: the destination is destroyed, then copied to
_copy_to_mods_dir(files, name) ==
    [nuke_path(files, InstalledPath(name)) EXCEPT ![InstalledPath(name)] = Dir]

\* the map of _copy_to_mods_dir over the content paths, from path k on
RECURSIVE CopyFrom(_, _, _, _)
CopyFrom(files, stem, content_paths, k) ==
    IF k > Len(content_paths) THEN [files |-> files, paths |-> <<>>]
    ELSE LET name == ContentName(stem, content_paths[k])
             rest == CopyFrom(_copy_to_mods_dir(files, name), stem, content_paths, k + 1)
         IN  [files |-> rest.files, paths |-> <<InstalledPath(name)>> \o rest.paths]

_install_mod(files, stem, tree, order) ==
    LET selected == _get_selected_content_folders(tree, order)
        copied == CopyFrom(files, stem, selected.folders, 1)
    IN  IF selected.exc # "none"
        THEN [exc |-> selected.exc, reason |-> selected.reason, files |-> files,
              paths |-> <<>>]
        ELSE [exc |-> "none", reason |-> "", files |-> copied.files, paths |-> copied.paths]

\* _extract_mod: the archive must be a file; the extraction directory is
\* destroyed and made again, then ZipFile reads the archive (zip is what
\* it finds in a file of each content, None when the file is no zip
\* archive) and extracts it.  scratch maps a stem to the tree of its
\* extraction directory, None when there is no such directory.
_extract_mod(files, scratch, zip, mod_file) ==
    IF ~is_file(files, mod_file) THEN [exc |-> "ValueError", scratch |-> scratch]
    ELSE IF ~IsSome(zip[files[mod_file].data])
    THEN [exc |-> "BadZipFile",
          scratch |-> [scratch EXCEPT ![Stem(mod_file)] = Some(EmptyTree)]]
    ELSE [exc |-> "none",
          scratch |-> [scratch EXCEPT ![Stem(mod_file)] = zip[files[mod_file].data]]]

(***************************************************************************)
(* The state of the program.                                               *)
(*   storage    ModStorageManager._storage                                 *)
(*   persisted  the document in ./storage.json                             *)
(*   fs         the downloads directory and the game's mods folder         *)
(*   last       the last call on the manager: its name, the exception it   *)
(*              raised ("none" when it returned), what is recorded of its  *)
(*              arguments and of its result.  A change of the filesystem   *)
(*              from outside the manager sets the name to "env".           *)
(*   dl         a call of DownloaderClient.download(): its tasks, the      *)
(*              position and the result of the coroutine of each task,     *)
(*              and how the call ended                                     *)
(*   inst       a call of install_downloaded_mods(): its tasks, the        *)
(*              position and the result of the job of each task, the       *)
(*              extraction directories, and how the call ended             *)
(*   sync       a run of _sync: the subscriptions it was given, the        *)
(*              statement it is at, the calls it made on the manager so    *)
(*              far and the document from_file() read; whether every       *)
(*              result of its pipelines so far is Ok, and whether it       *)
(*              follows, with nothing changed in between, a run that       *)
(*              completed with Ok results only                             *)
(***************************************************************************)
VARIABLES storage, persisted, fs, last, dl, inst, sync

\* no download() and no install_downloaded_mods() is under way
IdleDownload ==
    [tasks |-> <<>>, pc |-> <<>>, results |-> <<>>, outcome |-> "idle", returned |-> <<>>]
IdleInstall ==
    [tasks |-> <<>>, pc |-> <<>>, results |-> <<>>, written |-> <<>>,
     scratch |-> [stem \in Mods |-> None], zip |-> [c \in Contents |-> None],
     outcome |-> "idle", returned |-> <<>>]
\* no _sync is under way
IdleSync ==
    [pc |-> "idle", cycle |-> 0, my_mods |-> <<>>, trace |-> <<>>,
     read |-> model_dump_json(EmptyStorage), tampered |-> 0,
     all_ok |-> TRUE, settled |-> FALSE]

SeqsUpTo(S, n) == UNION {[1..k -> S] : k \in 0..n}

\* the lists of installed paths an installation may report
PathLists ==
    {<<>>, <<InstalledPath("Win")>>, <<InstalledPath("Win"), InstalledPath("Mod")>>}

DownloadResults ==
    {DownloadResultOk(DownloadTask(g, m, id)) :
        g \in Games, m \in ManagedMods, id \in FileIds}
    \cup {DownloadResultError(DownloadTask(g, m, id), "HTTPStatusError") :
            g \in Games, m \in ManagedMods, id \in FileIds}

InstallationResults ==
    {InstallationResultOk(InstallationTask(DownloadFilePath(g, m), g, m, id), ps) :
        g \in Games, m \in ManagedMods, id \in FileIds, ps \in PathLists}
    \cup {InstallationResultFail(InstallationTask(DownloadFilePath(g, m), g, m, id),
                                 "NO_PALLET_FOUND") :
            g \in Games, m \in ManagedMods, id \in FileIds}

DownloadBatches == SeqsUpTo(DownloadResults, MaxBatch)
InstallationBatches == SeqsUpTo(InstallationResults, MaxBatch)

\* the subscription lists of a game: each mod at most once, with its live
\* mod-file id for the platform, if it has one
SubscriptionLists ==
    {subs \in SeqsUpTo({SubscribedMod(m, live) : m \in ManagedMods,
                            live \in {None} \cup {Some(id) : id \in FileIds}},
                       Cardinality(ManagedMods)) :
        \A j, k \in 1..Len(subs) : j # k => subs[j].name_id # subs[k].name_id}

HasNonOk(results) == \E k \in 1..Len(results) : ~is_ok(results[k])

\* what a pipeline can hand over: the archive of an Ok download is a file,
\* the folders an Ok installation copied are directories
Downloaded(files, results) ==
    \A k \in 1..Len(results) :
        is_ok(results[k]) => is_file(files, results[k].task.download_file_path)
Installed(files, results) ==
    \A k \in 1..Len(results) :
        is_ok(results[k]) =>
            \A j \in 1..Len(results[k].result.installed_paths) :
                is_dir(files, results[k].result.installed_paths[j])

Call(op, exc, arg, ret) == [op |-> op, exc |-> exc, arg |-> arg, ret |-> ret]

\* ModStorageManager.from_file() with no ./storage.json: Storage(), saved
StoreInit ==
    /\ storage = EmptyStorage
    /\ persisted = model_dump_json(EmptyStorage)
    /\ fs = [p \in Paths |-> Absent]
    /\ last = Call("init", "none", <<>>, <<>>)
    /\ dl = IdleDownload
    /\ inst = IdleInstall
    /\ sync = IdleSync

\* an exception of a manager call ends the run (main.py catches none): the
\* next call is from_file() of the next run
Running == last.exc = "none"

\* ModStorageManager.from_file(): a new manager reads the document, and
\* __init__ saves it
FromFile ==
    /\ storage' = parse_file(persisted)
    /\ persisted' = model_dump_json(storage')
    /\ UNCHANGED fs
    /\ last' = Call("from_file", "none", <<>>, <<>>)
    /\ UNCHANGED <<dl, inst, sync>>

\* ModStorageManager.validate(): it does not save.  Recorded: whether the
\* call follows from_file() (the two make a load), and whether it is the
\* first or a later validate() in a row
Validate ==
    /\ Running
    /\ storage' = validate(storage, fs)
    /\ UNCHANGED <<persisted, fs>>
    /\ last' = Call("validate", "none",
                    [loaded |-> last.op = "from_file",
                     again |-> last.op = "validate"], <<>>)
    /\ UNCHANGED <<dl, inst, sync>>

\* Recorded: whether the batch has a non-Ok result, and the result the
\* exception names
UpdateDownloadedMods ==
    /\ Running
    /\ \E results \in DownloadBatches :
        LET out == update_downloaded_mods(storage, fs, results)
        IN  /\ Downloaded(fs, results)
            /\ storage' = out.storage
            /\ persisted' = IF out.exc = "none" THEN model_dump_json(out.storage)
                            ELSE persisted
            /\ UNCHANGED fs
            /\ last' = Call("update_downloaded_mods", out.exc, HasNonOk(results), out.named)
            /\ UNCHANGED <<dl, inst, sync>>

UpdateInstalledMods ==
    /\ Running
    /\ \E results \in InstallationBatches :
        LET out == update_installed_mods(storage, results)
        IN  /\ Installed(fs, results)
            /\ storage' = out.storage
            /\ persisted' = IF out.exc = "none" THEN model_dump_json(out.storage)
                            ELSE persisted
            /\ UNCHANGED fs
            /\ last' = Call("update_installed_mods", out.exc, HasNonOk(results), out.named)
            /\ UNCHANGED <<dl, inst, sync>>

\* Recorded: the exception only
GenerateModInstallTasks ==
    /\ Running
    /\ \E g \in Games, subs \in SubscriptionLists :
        LET out == generate_mod_install_tasks(storage, fs, g, subs)
        IN  /\ UNCHANGED <<storage, persisted, fs>>
            /\ last' = Call("generate_mod_install_tasks", out.exc, <<>>, <<>>)
            /\ UNCHANGED <<dl, inst, sync>>

\* Recorded: the game and the subscribed name_ids, the returned set and the
\* paths the call deleted
RemoveUnsubscribedMods ==
    /\ Running
    /\ \E g \in Games, subs \in SubscriptionLists :
        LET out == remove_unsubscribed_mods(storage, fs, g, subs)
        IN  /\ storage' = out.storage
            /\ persisted' = IF out.saved THEN model_dump_json(out.storage) ELSE persisted
            /\ fs' = out.files
            /\ last' = Call("remove_unsubscribed_mods", "none",
                            [game |-> g,
                             subscribed |-> {subs[k].name_id : k \in 1..Len(subs)}],
                            [removed |-> out.ret,
                             deleted |-> {p \in Paths : exists(fs, p) /\ ~exists(out.files, p)}])
            /\ UNCHANGED <<dl, inst, sync>>

Outside == Call("env", last.exc, <<>>, <<>>)

\* a download writes an archive, or the file is altered or truncated
WriteArchive ==
    \E g \in Games, m \in ManagedMods, c \in Contents :
        /\ fs' = [fs EXCEPT ![DownloadFilePath(g, m)] = File(c)]
        /\ UNCHANGED <<storage, persisted>>
        /\ last' = Outside
        /\ UNCHANGED <<dl, inst, sync>>

\* an installation copies a content folder into the mods folder
CopyContentFolder ==
    \E p \in InstallPaths :
        /\ fs' = [fs EXCEPT ![p] = Dir]
        /\ UNCHANGED <<storage, persisted>>
        /\ last' = Outside
        /\ UNCHANGED <<dl, inst, sync>>

\* a file or a directory is deleted
DeletePath ==
    \E p \in Paths :
        /\ exists(fs, p)
        /\ fs' = nuke_path(fs, p)
        /\ UNCHANGED <<storage, persisted>>
        /\ last' = Outside
        /\ UNCHANGED <<dl, inst, sync>>

vars == <<storage, persisted, fs, last, dl, inst, sync>>

Next ==
    \/ FromFile
    \/ Validate
    \/ UpdateDownloadedMods
    \/ UpdateInstalledMods
    \/ GenerateModInstallTasks
    \/ RemoveUnsubscribedMods
    \/ WriteArchive
    \/ CopyContentFolder
    \/ DeletePath

Spec == StoreInit /\ [][Next]_vars

(***************************************************************************)
(* Properties of the storage manager                                       *)
(***************************************************************************)
ManagedOf(st, g) == IF g \in DOMAIN st THEN DOMAIN st[g] ELSE {}

\* the downloaded_mod of (g, m), None without an entry
DownloadedOf(st, g, m) ==
    IF IsSome(read_managed_mod(st, g, m)) THEN st[g][m].downloaded_mod ELSE None

\* the content whose digest a downloaded_mod records
RecordedContent(d) == CHOOSE c \in 0..(Len(Md5Digests) - 1) : Md5Digests[c + 1] = d.file_hash

\* the archive is on disk as it was recorded: not deleted, truncated or altered
ArchiveIntact(files, d) == files[d.file_path] = File(RecordedContent(d))

\* the entry of (g, m) records id as installed, and its paths are directories
InstalledOnDisk(st, files, g, m, id) ==
    /\ IsSome(read_managed_mod(st, g, m))
    /\ IsSome(st[g][m].installed_mod)
    /\ Get(st[g][m].installed_mod).mod_file_id = id
    /\ \A k \in 1..Len(Get(st[g][m].installed_mod).installed_paths) :
            files[Get(st[g][m].installed_mod).installed_paths[k]] = Dir

\* a load has just completed: from_file() saved the store it read, then
\* validate() ran, and nothing changed since
Loaded == last.op = "validate" /\ last.arg.loaded

\* the entries the load read whose archive is no longer as recorded
ChangedArchives ==
    LET read == parse_file(persisted)
    IN  {e \in {<<g, m>> : g \in Games, m \in Mods} :
            /\ IsSome(DownloadedOf(read, e[1], e[2]))
            /\ ~ArchiveIntact(fs, Get(DownloadedOf(read, e[1], e[2])))}

RecordedId(e) == Get(DownloadedOf(parse_file(persisted), e[1], e[2])).mod_file_id

\* C1 as stated: after a load, every entry whose archive was deleted,
\* truncated or altered has no downloaded_mod, and needs_download of its
\* recorded mod-file id is true.
C1_HashSelfHealing ==
    Loaded =>
        \A e \in ChangedArchives :
            /\ ~IsSome(DownloadedOf(storage, e[1], e[2]))
            /\ needs_download(storage, fs, e[1], e[2], RecordedId(e))

\* C1 amended: after a load, every entry whose archive was deleted,
\* truncated or altered has no downloaded_mod, and needs_download of its
\* recorded mod-file id is true unless the entry read records that same id
\* as installed with all its installed paths present as directories.
C1_HashSelfHealingUnlessInstalled ==
    Loaded =>
        \A e \in ChangedArchives :
            /\ ~IsSome(DownloadedOf(storage, e[1], e[2]))
            /\ needs_download(storage, fs, e[1], e[2], RecordedId(e))
                  = ~InstalledOnDisk(parse_file(persisted), fs, e[1], e[2], RecordedId(e))

\* a load dropped the record of a changed archive, which is to download again
C1_Witness ==
    /\ Loaded
    /\ \E e \in ChangedArchives : needs_download(storage, fs, e[1], e[2], RecordedId(e))

\* the mod-file ids the tasks returned for mod m ask to install
TaskIds(tasks, m) ==
    {tasks[k].mod_file_id : k \in {j \in 1..Len(tasks) : tasks[j].mod_name_id = m}}

\* C2: in every reachable store, generate_mod_install_tasks returns no task
\* for a subscribed mod that has no downloaded_mod record or whose
\* downloaded_mod.mod_file_id differs from the mod's live mod-file id.
C2_InstallOnlyDownloaded ==
    \A g \in Games, subs \in SubscriptionLists :
        LET out == generate_mod_install_tasks(storage, fs, g, subs)
        IN  \A k \in 1..Len(subs) :
                LET m == subs[k].name_id
                    d == DownloadedOf(storage, g, m)
                IN  (\/ ~IsSome(d)
                     \/ ~IsSome(subs[k].modfile_live)
                     \/ Get(d).mod_file_id # Get(subs[k].modfile_live))
                    => TaskIds(out.tasks, m) = {}

\* generate_mod_install_tasks ran on a store that records a download and
\* an installation of another mod-file id: it returns a task for the
\* downloaded id and none for the other ids
C2_Witness ==
    /\ last.op = "generate_mod_install_tasks"
    /\ last.exc = "none"
    /\ \E g \in Games, m \in Mods :
        /\ IsSome(DownloadedOf(storage, g, m))
        /\ IsSome(storage[g][m].installed_mod)
        /\ \A id \in FileIds :
            LET out == generate_mod_install_tasks(storage, fs, g, <<SubscribedMod(m, Some(id))>>)
            IN  Len(out.tasks) = (IF id = Get(DownloadedOf(storage, g, m)).mod_file_id
                                  THEN 1 ELSE 0)

\* C3 as stated: whenever the store records id as the installed mod-file id
\* of (g, m), needs_download and needs_installation of id are both false.
C3_NoRedundantWork ==
    \A g \in Games, m \in Mods, id \in FileIds :
        (/\ IsSome(read_managed_mod(storage, g, m))
         /\ IsSome(storage[g][m].installed_mod)
         /\ Get(storage[g][m].installed_mod).mod_file_id = id)
        => /\ ~needs_download(storage, fs, g, m, id)
           /\ ~needs_installation(storage, fs, g, m, id)

\* C3 amended: whenever the store records id as the installed mod-file id
\* of (g, m) and every installed path of the record exists as a directory,
\* needs_download and needs_installation of id are both false.
C3_NoRedundantWorkOnDisk ==
    \A g \in Games, m \in Mods, id \in FileIds :
        InstalledOnDisk(storage, fs, g, m, id)
        => /\ ~needs_download(storage, fs, g, m, id)
           /\ ~needs_installation(storage, fs, g, m, id)

\* a mod is recorded as installed at two existing directories, with no
\* download of that id on record: neither call asks for work
C3_Witness ==
    \E g \in Games, m \in Mods, id \in FileIds :
        /\ InstalledOnDisk(storage, fs, g, m, id)
        /\ Len(Get(storage[g][m].installed_mod).installed_paths) = 2
        /\ ~has_mod_file_downloaded(storage[g][m], id)
        /\ ~needs_download(storage, fs, g, m, id)
        /\ ~needs_installation(storage, fs, g, m, id)

\* the installed paths and the archive an entry records
RecordedPaths(mm) ==
    (IF IsSome(mm.installed_mod)
     THEN {Get(mm.installed_mod).installed_paths[k] :
             k \in 1..Len(Get(mm.installed_mod).installed_paths)}
     ELSE {})
    \cup (IF IsSome(mm.downloaded_mod) THEN {Get(mm.downloaded_mod).file_path} ELSE {})

\* C7: remove_unsubscribed_mods(game, subscriptions) leaves, for every
\* managed mod of the game whose name_id is not subscribed, none of its
\* installed paths and not its archive on disk, no entry in the store and
\* no entry in the persisted document.
C7_PruneDeletesFiles ==
    [][last'.op = "remove_unsubscribed_mods" =>
        \A m \in ManagedOf(storage, last'.arg.game) \ last'.arg.subscribed :
            /\ \A p \in RecordedPaths(storage[last'.arg.game][m]) : fs'[p] = Absent
            /\ ~IsSome(read_managed_mod(storage', last'.arg.game, m))
            /\ m \notin ManagedOf(persisted'.games, last'.arg.game)]_vars

\* remove_unsubscribed_mods removed a mod and deleted two installed
\* directories and an archive that were on disk
C7_Witness ==
    /\ last.op = "remove_unsubscribed_mods"
    /\ last.ret.removed # {}
    /\ {InstalledPath("Win"), InstalledPath("Mod")} \subseteq last.ret.deleted
    /\ last.ret.deleted \cap ArchivePaths # {}

\* C8: a validate() that follows a validate() with no change of the
\* filesystem in between leaves the store and the persisted document as the
\* first one left them.
C8_IdempotentValidation ==
    [][(last.op = "validate" /\ last'.op = "validate") =>
        (storage' = storage /\ persisted' = persisted)]_vars

\* validate() ran twice in a row on a store from which the first run had
\* dropped a record
C8_Witness ==
    /\ last.op = "validate"
    /\ last.arg.again
    /\ storage # parse_file(persisted)

FirstNonOk(results) == CHOOSE k \in 1..Len(results) :
    ~is_ok(results[k]) /\ \A j \in 1..(k - 1) : is_ok(results[j])

\* C9 as stated: a batch with a non-Ok result, wherever it is in the batch,
\* makes update_downloaded_mods and update_installed_mods raise a
\* StorageUpdateException that names a non-Ok result of the batch.
C9_RejectsFailedResults ==
    (last.op \in {"update_downloaded_mods", "update_installed_mods"} /\ last.arg)
    => /\ last.exc = "StorageUpdateException"
       /\ IsSome(last.ret)
       /\ ~is_ok(Get(last.ret))

\* C9 amended: a batch with a non-Ok result makes both calls raise.  The
\* exception is a StorageUpdateException naming the first non-Ok result
\* when every result before it is applied without error; otherwise the
\* earlier failure is raised: ValueError for an Ok installation of a mod
\* without ManagedMod, OSError for an Ok download whose file cannot be read.
C9_RejectsAtFirstFailure ==
    /\ \A results \in InstallationBatches :
        HasNonOk(results) =>
            LET out == update_installed_mods(storage, results)
                k == FirstNonOk(results)
                known == \A j \in 1..(k - 1) :
                            IsSome(read_managed_mod(storage, results[j].task.game_name_id,
                                                    results[j].task.mod_name_id))
            IN  IF known
                THEN out.exc = "StorageUpdateException" /\ out.named = Some(results[k])
                ELSE out.exc = "ValueError"
    /\ \A results \in DownloadBatches :
        HasNonOk(results) =>
            LET out == update_downloaded_mods(storage, fs, results)
                k == FirstNonOk(results)
                readable == \A j \in 1..(k - 1) :
                                fs[results[j].task.download_file_path].kind = "file"
            IN  IF readable
                THEN out.exc = "StorageUpdateException" /\ out.named = Some(results[k])
                ELSE out.exc = "OSError"

\* update_installed_mods was given a batch with a non-Ok result and raised
\* a StorageUpdateException naming it
C9_Witness ==
    /\ last.op = "update_installed_mods"
    /\ last.arg
    /\ last.exc = "StorageUpdateException"
    /\ IsSome(last.ret)
    /\ ~is_ok(Get(last.ret))

\* C10: update_installed_mods given an Ok result for a (game, mod) without
\* ManagedMod raises, and the store has no installed_mod record for that
\* mod afterwards.
C10_InstallationFollowsDownload ==
    \A results \in InstallationBatches :
        \A k \in 1..Len(results) :
            LET g == results[k].task.game_name_id
                m == results[k].task.mod_name_id
                out == update_installed_mods(storage, results)
            IN  (is_ok(results[k]) /\ ~IsSome(read_managed_mod(storage, g, m)))
                => /\ out.exc # "none"
                   /\ ~IsSome(read_managed_mod(out.storage, g, m))

\* update_installed_mods raised ValueError on a batch of Ok results, and
\* the store has no entry for the mod
C10_Witness ==
    /\ last.op = "update_installed_mods"
    /\ ~last.arg
    /\ last.exc = "ValueError"
    /\ \A g \in Games, m \in ManagedMods : ~IsSome(read_managed_mod(storage, g, m))

\* C11: when a load (from_file followed by validate) completes, the
\* document in storage.json equals the validated store in memory.
C11_SelfHealingWriteBack ==
    Loaded => persisted = model_dump_json(storage)

\* the store records id as the downloaded, as the installed mod-file id of
\* (g, m)
RecordsDownloaded(st, g, m, id) ==
    /\ IsSome(DownloadedOf(st, g, m))
    /\ Get(DownloadedOf(st, g, m)).mod_file_id = id
RecordsInstalled(st, g, m, id) ==
    /\ IsSome(read_managed_mod(st, g, m))
    /\ IsSome(st[g][m].installed_mod)
    /\ Get(st[g][m].installed_mod).mod_file_id = id

\* C12 as stated: needs_download(g, m, id) is false exactly when the store
\* records id as downloaded or as installed for (g, m); so it is true
\* without a ManagedMod and when the recorded ids differ from id.
C12_NeedsDownloadOnRecord ==
    \A g \in Games, m \in Mods, id \in FileIds :
        needs_download(storage, fs, g, m, id)
            = ~(RecordsDownloaded(storage, g, m, id) \/ RecordsInstalled(storage, g, m, id))

\* C12 amended: needs_download(g, m, id) is false exactly when the store
\* records id as downloaded for (g, m), or records it as installed with
\* every installed path existing as a directory.
C12_NeedsDownloadOnDisk ==
    \A g \in Games, m \in Mods, id \in FileIds :
        needs_download(storage, fs, g, m, id)
            = ~(RecordsDownloaded(storage, g, m, id) \/ InstalledOnDisk(storage, fs, g, m, id))

\* an id is on record as installed only, one of its directories is gone:
\* needs_download of it is true, and true of any other id
C12_Witness ==
    \E g \in Games, m \in Mods, id \in FileIds :
        /\ RecordsInstalled(storage, g, m, id)
        /\ ~IsSome(DownloadedOf(storage, g, m))
        /\ ~InstalledOnDisk(storage, fs, g, m, id)
        /\ \A other \in FileIds : needs_download(storage, fs, g, m, other)

\* C13: generate_mod_install_tasks raises nothing, and it returns a task
\* of a subscribed mod exactly when the mod has a live mod-file id for the
\* platform, the store records that id as downloaded and does not record
\* it as installed.
C13_InstallTasksExact ==
    \A g \in Games, subs \in SubscriptionLists :
        LET out == generate_mod_install_tasks(storage, fs, g, subs)
        IN  /\ out.exc = "none"
            /\ \A k \in 1..Len(subs) :
                    (TaskIds(out.tasks, subs[k].name_id) # {})
                    = (/\ IsSome(subs[k].modfile_live)
                       /\ RecordsDownloaded(storage, g, subs[k].name_id,
                                            Get(subs[k].modfile_live))
                       /\ ~RecordsInstalled(storage, g, subs[k].name_id,
                                            Get(subs[k].modfile_live)))

\* C22: right after validate() the store has no ManagedMod whose
\* downloaded_mod and installed_mod are both absent.
C22_NoEmptyEntryAfterValidate ==
    last.op = "validate" =>
        \A g \in DOMAIN storage : \A m \in DOMAIN storage[g] :
            IsSome(storage[g][m].downloaded_mod) \/ IsSome(storage[g][m].installed_mod)

\* the load found an entry with a downloaded_mod and an installed_mod,
\* neither passed its check, and the store is without the entry
C22_Witness ==
    /\ Loaded
    /\ \E g \in Games, m \in ManagedMods :
        /\ IsSome(read_managed_mod(parse_file(persisted), g, m))
        /\ IsSome(parse_file(persisted)[g][m].downloaded_mod)
        /\ IsSome(parse_file(persisted)[g][m].installed_mod)
        /\ ~IsSome(read_managed_mod(storage, g, m))

\* the installed_mod, the downloaded_mod of an entry of a store: None
\* without the entry
InstalledOf(st, g, m) ==
    IF IsSome(read_managed_mod(st, g, m)) THEN st[g][m].installed_mod ELSE None

AllDirectories(files, i) ==
    \A k \in 1..Len(i.installed_paths) : files[i.installed_paths[k]] = Dir

\* C23: after a load, the installed_mod of an entry the document held is
\* kept as it was when every path of installed_paths is a directory, and is
\* absent otherwise, whatever the check of the entry's downloaded_mod gave;
\* and a downloaded_mod whose archive is on disk as recorded is kept,
\* whatever the check of the installed_mod gave.
C23_InstalledKeptIffPathsPresent ==
    Loaded =>
        \A g \in Games, m \in ManagedMods :
            LET read == parse_file(persisted)
            IN  /\ IsSome(InstalledOf(read, g, m)) =>
                    InstalledOf(storage, g, m) =
                        IF AllDirectories(fs, Get(InstalledOf(read, g, m)))
                        THEN InstalledOf(read, g, m) ELSE None
                /\ (IsSome(DownloadedOf(read, g, m))
                        /\ ArchiveIntact(fs, Get(DownloadedOf(read, g, m)))) =>
                    DownloadedOf(storage, g, m) = DownloadedOf(read, g, m)

\* the load dropped a downloaded_mod whose archive was altered and kept the
\* installed_mod of the same entry, which has a path
C23_Witness ==
    /\ Loaded
    /\ \E g \in Games, m \in ManagedMods :
        LET read == parse_file(persisted)
        IN  /\ IsSome(DownloadedOf(read, g, m))
            /\ is_file(fs, Get(DownloadedOf(read, g, m)).file_path)
            /\ ~ArchiveIntact(fs, Get(DownloadedOf(read, g, m)))
            /\ ~IsSome(DownloadedOf(storage, g, m))
            /\ IsSome(InstalledOf(storage, g, m))
            /\ Len(Get(InstalledOf(storage, g, m)).installed_paths) > 0

\* C27: a step of update_downloaded_mods or update_installed_mods that
\* raises leaves the in-memory store as it was before the call; and after
\* a step of any mutating call of the manager, whether it returned or
\* raised, the document is the in-memory store.
C27_FailedBatchUnchanged ==
    [][/\ (last'.op \in {"update_downloaded_mods", "update_installed_mods"}
            /\ last'.exc # "none") => storage' = storage
       /\ last'.op \in {"validate", "update_downloaded_mods", "update_installed_mods",
                         "remove_unsubscribed_mods"} =>
                persisted' = model_dump_json(storage')]_vars

(***************************************************************************)
(* DownloaderClient.download() as a state machine.  asyncio.gather runs    *)
(* one _download_task coroutine per task; the coroutines interleave at     *)
(* their awaits.  The position of a coroutine is                           *)
(*   "created"    not run yet                                              *)
(*   "opened"     the destination is open, the response is awaited         *)
(*   "streaming"  the body is read chunk by chunk                          *)
(*   "returned"   the coroutine returned its DownloadResult                *)
(*   "raised"     an exception left the coroutine                          *)
(*   "cancelled"  the coroutine was abandoned when download() raised       *)
(***************************************************************************)
\* the tasks main.py builds: one per mod to download, of any mod-file id
DownloadTaskLists ==
    {ts \in SeqsUpTo({DownloadTask(g, m, id) : g \in Games, m \in Mods, id \in FileIds},
                     MaxBatch) :
        \A j, k \in 1..Len(ts) : j # k => ts[j].mod # ts[k].mod}

\* DownloaderClient(download_tasks).download() is called; at each
\* destination there is nothing, a file or a directory
DownloadInit ==
    /\ storage = EmptyStorage
    /\ persisted = model_dump_json(EmptyStorage)
    /\ last = Call("init", "none", <<>>, <<>>)
    /\ inst = IdleInstall
    /\ sync = IdleSync
    /\ \E ts \in DownloadTaskLists :
        /\ dl = [tasks |-> ts, pc |-> [k \in 1..Len(ts) |-> "created"],
                 results |-> [k \in 1..Len(ts) |-> None],
                 outcome |-> "running", returned |-> <<>>]
        /\ \E at \in [{ts[k].download_file_path : k \in 1..Len(ts)} ->
                        {Absent, Dir} \cup {File(c) : c \in Contents}] :
            fs = [p \in Paths |-> IF p \in DOMAIN at THEN at[p] ELSE Absent]

Downloading(k) == dl.outcome = "running" /\ k \in 1..Len(dl.tasks)

\* the coroutine returns DownloadResult r
DownloadReturned(k, r) ==
    [dl EXCEPT !.pc[k] = "returned", !.results[k] = Some(r)]

\* client.py line 20: the coroutine opens its destination, outside the try
OpenDestination ==
    \E k \in 1..Len(dl.tasks) :
        LET opened == open_wb(fs, dl.tasks[k].download_file_path)
        IN  /\ Downloading(k)
            /\ dl.pc[k] = "created"
            /\ fs' = opened.files
            /\ dl' = [dl EXCEPT !.pc[k] = IF opened.exc = "none" THEN "opened" ELSE "raised"]
            /\ UNCHANGED <<storage, persisted, last, inst, sync>>

\* lines 23-25: the response arrives, or an exception does, which the
\* except clause turns into an Error result
ReceiveResponse ==
    \E k \in 1..Len(dl.tasks), response \in Responses :
        /\ Downloading(k)
        /\ dl.pc[k] = "opened"
        /\ dl' = IF response = "ok" THEN [dl EXCEPT !.pc[k] = "streaming"]
                 ELSE DownloadReturned(k, DownloadResultError(dl.tasks[k], response))
        /\ UNCHANGED <<storage, persisted, fs, last, inst, sync>>

\* lines 29-34: a chunk arrives and is written, the file grows
ReceiveChunk ==
    \E k \in 1..Len(dl.tasks), c \in Contents :
        /\ Downloading(k)
        /\ dl.pc[k] = "streaming"
        /\ c > fs[dl.tasks[k].download_file_path].data
        /\ fs' = [fs EXCEPT ![dl.tasks[k].download_file_path] = File(c)]
        /\ UNCHANGED <<storage, persisted, last, dl, inst, sync>>

\* line 29: the transport fails while the body is read
StreamFails ==
    \E k \in 1..Len(dl.tasks) :
        /\ Downloading(k)
        /\ dl.pc[k] = "streaming"
        /\ dl' = DownloadReturned(k, DownloadResultError(dl.tasks[k], "ReadError"))
        /\ UNCHANGED <<storage, persisted, fs, last, inst, sync>>

\* line 36: the body is read to its end
StreamEnds ==
    \E k \in 1..Len(dl.tasks) :
        /\ Downloading(k)
        /\ dl.pc[k] = "streaming"
        /\ dl' = DownloadReturned(k, DownloadResultOk(dl.tasks[k]))
        /\ UNCHANGED <<storage, persisted, fs, last, inst, sync>>

\* lines 42-43 and 55-56: without tasks download() returns [], otherwise
\* gather returns the results of the coroutines in the order of the tasks
DownloadReturns ==
    /\ dl.outcome = "running"
    /\ \A k \in 1..Len(dl.tasks) : dl.pc[k] = "returned"
    /\ dl' = [dl EXCEPT !.outcome = "returned",
                        !.returned = [k \in 1..Len(dl.tasks) |-> Get(dl.results[k])]]
    /\ UNCHANGED <<storage, persisted, fs, last, inst, sync>>

\* line 55: gather, called without return_exceptions, raises the exception
\* of a coroutine in download(); main.py catches nothing and asyncio.run
\* cancels the coroutines that have not ended
DownloadRaises ==
    /\ dl.outcome = "running"
    /\ \E k \in 1..Len(dl.tasks) : dl.pc[k] = "raised"
    /\ dl' = [dl EXCEPT !.outcome = "raised",
                        !.pc = [k \in 1..Len(dl.tasks) |->
                                   IF dl.pc[k] \in {"returned", "raised"} THEN dl.pc[k]
                                   ELSE "cancelled"]]
    /\ UNCHANGED <<storage, persisted, fs, last, inst, sync>>

NextDownload ==
    \/ OpenDestination
    \/ ReceiveResponse
    \/ ReceiveChunk
    \/ StreamFails
    \/ StreamEnds
    \/ DownloadReturns
    \/ DownloadRaises

SpecDownload == DownloadInit /\ [][NextDownload]_vars

(***************************************************************************)
(* Properties of the downloader                                            *)
(***************************************************************************)
\* C4: download() of N tasks does not raise and no task is left without a
\* result: whatever fails in a task (a non-success status, a transport
\* error, the opening of the destination), its coroutine returns a result,
\* no coroutine is abandoned, and when download() returns it returns N
\* results, the k-th tagged with the k-th task.
C4_DownloadCompleteness ==
    /\ dl.outcome # "raised"
    /\ \A k \in 1..Len(dl.tasks) : dl.pc[k] \notin {"raised", "cancelled"}
    /\ dl.outcome = "returned" =>
        /\ Len(dl.returned) = Len(dl.tasks)
        /\ \A k \in 1..Len(dl.tasks) : dl.returned[k].task = dl.tasks[k]

(***************************************************************************)
(* install_downloaded_mods() as a state machine.  multiprocessing.Pool.map *)
(* hands each task to a worker process as a job of its own (a chunk holds  *)
(* one task as long as there are no more tasks than four times the number  *)
(* of workers); the workers run extract_and_install side by side.  The     *)
(* position of a job is                                                    *)
(*   "queued"     not run yet                                              *)
(*   "extracted"  _extract_mod returned                                    *)
(*   "done"       extract_and_install returned its InstallationResult      *)
(*   "raised"     an exception left extract_and_install                    *)
(***************************************************************************)
\* the tasks generate_mod_install_tasks builds: one per mod to install
InstallationTaskLists ==
    {ts \in SeqsUpTo({InstallationTask(DownloadFilePath(g, m), g, m, id) :
                        g \in Games, m \in Mods, id \in FileIds}, MaxBatch) :
        \A j, k \in 1..Len(ts) : j # k => ts[j].mod_name_id # ts[k].mod_name_id}

\* what ZipFile can find in the files: the empty file is no zip archive
Archives ==
    {z \in [Contents -> {None} \cup {Some(t) : t \in Trees}] : z[0] = None}

\* install_downloaded_mods(installer, tasks) is called; at the archive path
\* of each task there is nothing, a directory or a file
InstallInit ==
    /\ storage = EmptyStorage
    /\ persisted = model_dump_json(EmptyStorage)
    /\ last = Call("init", "none", <<>>, <<>>)
    /\ dl = IdleDownload
    /\ sync = IdleSync
    /\ \E ts \in InstallationTaskLists :
        \E at \in [{ts[k].downloaded_path : k \in 1..Len(ts)} ->
                        {Absent, Dir} \cup {File(c) : c \in Contents}] :
            /\ fs = [p \in Paths |-> IF p \in DOMAIN at THEN at[p] ELSE Absent]
            /\ \E z \in Archives :
                /\ \A c \in Contents : IsSome(z[c]) => \E p \in DOMAIN at : at[p] = File(c)
                /\ inst = [tasks |-> ts, pc |-> [k \in 1..Len(ts) |-> "queued"],
                           results |-> [k \in 1..Len(ts) |-> None],
                           written |-> [k \in 1..Len(ts) |-> {}],
                           scratch |-> [stem \in Mods |-> None], zip |-> z,
                           outcome |-> "running", returned |-> <<>>]

Installing(k) == inst.outcome = "running" /\ k \in 1..Len(inst.tasks)

\* extract_and_install line 38
ExtractMod ==
    \E k \in 1..Len(inst.tasks) :
        LET extracted == _extract_mod(fs, inst.scratch, inst.zip,
                                      inst.tasks[k].downloaded_path)
        IN  /\ Installing(k)
            /\ inst.pc[k] = "queued"
            /\ inst' = [inst EXCEPT !.scratch = extracted.scratch,
                                    !.pc[k] = IF extracted.exc = "none" THEN "extracted"
                                              ELSE "raised"]
            /\ UNCHANGED <<storage, persisted, fs, last, dl, sync>>

\* extract_and_install lines 39-42: written records the destinations the
\* job copied to
InstallMod ==
    \E k \in 1..Len(inst.tasks) :
        /\ Installing(k)
        /\ inst.pc[k] = "extracted"
        /\ \E order \in Orders(Get(inst.scratch[Stem(inst.tasks[k].downloaded_path)])) :
            LET stem == Stem(inst.tasks[k].downloaded_path)
                installed == _install_mod(fs, stem, Get(inst.scratch[stem]), order)
            IN  /\ fs' = installed.files
                /\ inst' = [inst EXCEPT
                        !.pc[k] = "done",
                        !.written[k] = {installed.paths[i] : i \in 1..Len(installed.paths)},
                        !.results[k] =
                            Some(IF installed.exc = "none"
                                 THEN InstallationResultOk(inst.tasks[k], installed.paths)
                                 ELSE InstallationResultFail(inst.tasks[k],
                                                             installed.reason))]
                /\ UNCHANGED <<storage, persisted, last, dl, sync>>

\* main.py line 106: every job returned, map returns their results in the
\* order of the tasks
PoolMapReturns ==
    /\ inst.outcome = "running"
    /\ \A k \in 1..Len(inst.tasks) : inst.pc[k] = "done"
    /\ inst' = [inst EXCEPT !.outcome = "returned",
                            !.returned = [k \in 1..Len(inst.tasks) |-> Get(inst.results[k])]]
    /\ UNCHANGED <<storage, persisted, fs, last, dl, sync>>

\* main.py line 106: when every job is over and one of them raised, map
\* raises its exception in install_downloaded_mods
PoolMapRaises ==
    /\ inst.outcome = "running"
    /\ \A k \in 1..Len(inst.tasks) : inst.pc[k] \in {"done", "raised"}
    /\ \E k \in 1..Len(inst.tasks) : inst.pc[k] = "raised"
    /\ inst' = [inst EXCEPT !.outcome = "raised"]
    /\ UNCHANGED <<storage, persisted, fs, last, dl, sync>>

NextInstall ==
    \/ ExtractMod
    \/ InstallMod
    \/ PoolMapReturns
    \/ PoolMapRaises

SpecInstall == InstallInit /\ [][NextInstall]_vars

(***************************************************************************)
(* Properties of the installer                                             *)
(***************************************************************************)
\* the directories that hold a pallet.json and lie below no other such
\* directory
Candidates(tree) ==
    {p \in tree.pallets :
        \A n \in 0..(Len(p) - 1) : SubSeq(p, 1, n) \notin tree.pallets}

HasAllowedKeyword(p) == _contains_keyword(RelativePath(p), _PLATFORM_KEYWORDS)
HasBannedKeyword(p) == _contains_keyword(RelativePath(p), _BANNED_PLATFORM_KEYWORDS)

\* two candidates or more, one of them with neither kind of keyword
Ambiguous(tree) ==
    /\ Cardinality(Candidates(tree)) >= 2
    /\ \E p \in Candidates(tree) : ~HasAllowedKeyword(p) /\ ~HasBannedKeyword(p)

\* the tree job k extracted, when it got as far
ExtractedTree(k) == Get(inst.scratch[Stem(inst.tasks[k].downloaded_path)])

\* the destinations of the candidates of the tree job k extracted
CandidateDestinations(k) ==
    {InstalledPath(ContentName(Stem(inst.tasks[k].downloaded_path), p)) :
        p \in Candidates(ExtractedTree(k))}

\* the archive of task k is no file, or a file that is no zip archive
Unreadable(k) ==
    \/ ~is_file(fs, inst.tasks[k].downloaded_path)
    \/ ~IsSome(inst.zip[fs[inst.tasks[k].downloaded_path].data])

\* job k is over with a Fail result
Failed(k) ==
    /\ inst.pc[k] = "done"
    /\ Get(inst.results[k]).result.tag = "Fail"

\* C5: install_downloaded_mods of N tasks does not raise and no job ends
\* with an exception: a task whose archive is no file or cannot be read,
\* whose tree has no sentinel or has ambiguous candidates ends with a Fail
\* result, and when install_downloaded_mods returns it returns N results,
\* the k-th tagged with the k-th task.
C5_InstallIsolation ==
    /\ inst.outcome # "raised"
    /\ \A k \in 1..Len(inst.tasks) :
        /\ inst.pc[k] # "raised"
        /\ (inst.pc[k] # "queued" /\ Unreadable(k)) => Failed(k)
        /\ (/\ inst.pc[k] = "done"
            /\ (Candidates(ExtractedTree(k)) = {} \/ Ambiguous(ExtractedTree(k))))
           => Failed(k)
    /\ inst.outcome = "returned" =>
        /\ Len(inst.returned) = Len(inst.tasks)
        /\ \A k \in 1..Len(inst.tasks) : inst.returned[k].task = inst.tasks[k]

\* C6 as stated: a job whose extracted tree has two candidates or more,
\* one of them with neither an allowed nor a banned keyword in its relative
\* path, ends with a Fail result whose reason is not NO_PALLET_FOUND, and
\* has copied nothing.
C6_AmbiguityRejection ==
    \A k \in 1..Len(inst.tasks) :
        (inst.pc[k] = "done" /\ Ambiguous(ExtractedTree(k)))
        => /\ Failed(k)
           /\ Get(inst.results[k]).result.reason # "NO_PALLET_FOUND"
           /\ inst.written[k] = {}

\* C6 amended: a job whose extracted tree has two candidates or more, one
\* of them with neither an allowed nor a banned keyword in its relative
\* path, ends with an Ok result: every candidate, those with a banned
\* keyword included, has been copied to the mods folder, and the result
\* lists the destination of each.
C6_AmbiguityAcceptsAll ==
    \A k \in 1..Len(inst.tasks) :
        (inst.pc[k] = "done" /\ Ambiguous(ExtractedTree(k)))
        => LET result == Get(inst.results[k]).result
           IN  /\ result.tag = "Ok"
               /\ Len(result.installed_paths) = Cardinality(Candidates(ExtractedTree(k)))
               /\ {result.installed_paths[i] : i \in 1..Len(result.installed_paths)}
                      = CandidateDestinations(k)
               /\ inst.written[k] = CandidateDestinations(k)
               /\ \A p \in CandidateDestinations(k) : is_dir(fs, p)

\* a job extracted a tree with a candidate that has neither keyword and a
\* candidate that has a banned one: both were copied
C6_Witness ==
    \E k \in 1..Len(inst.tasks) :
        /\ inst.pc[k] = "done"
        /\ Ambiguous(ExtractedTree(k))
        /\ \E p \in Candidates(ExtractedTree(k)) :
            /\ HasBannedKeyword(p)
            /\ ~HasAllowedKeyword(p)
            /\ is_dir(fs, InstalledPath(ContentName(Stem(inst.tasks[k].downloaded_path), p)))
            /\ InstalledPath(ContentName(Stem(inst.tasks[k].downloaded_path), p))
                    \in inst.written[k]

\* the destination of candidate p of the tree job k extracted
DestinationOf(k, p) ==
    InstalledPath(ContentName(Stem(inst.tasks[k].downloaded_path), p))

\* job k got as far as extracting its archive
Extracted(k) == inst.pc[k] \in {"extracted", "done"}

\* job k is over with an Ok result that lists exactly the destinations ds,
\* one path for each of n folders, and it copied to these and no other
InstalledExactly(k, ds, n) ==
    LET result == Get(inst.results[k]).result
    IN  /\ inst.pc[k] = "done"
        /\ result.tag = "Ok"
        /\ Len(result.installed_paths) = n
        /\ {result.installed_paths[i] : i \in 1..Len(result.installed_paths)} = ds
        /\ inst.written[k] = ds
        /\ \A p \in ds : is_dir(fs, p)

\* C16: when the extracted tree has exactly one directory that holds
\* pallet.json, resolution selects that directory in whatever order the
\* entries are listed and whatever keywords its path has, and the job ends
\* Ok with that directory copied and nothing else.
C16_SingleCandidate ==
    \A k \in 1..Len(inst.tasks) :
        (Extracted(k) /\ Cardinality(ExtractedTree(k).pallets) = 1)
        => LET c == CHOOSE p \in ExtractedTree(k).pallets : TRUE
           IN  /\ \A order \in Orders(ExtractedTree(k)) :
                    _get_selected_content_folders(ExtractedTree(k), order) = Selected(<<c>>)
               /\ inst.pc[k] = "done" => InstalledExactly(k, {DestinationOf(k, c)}, 1)

\* a job whose only candidate lies in a tree of two directories and has a
\* banned keyword in its path ended Ok, with the candidate copied
C16_Witness ==
    \E k \in 1..Len(inst.tasks) :
        /\ inst.pc[k] = "done"
        /\ Cardinality(ExtractedTree(k).dirs) = 2
        /\ \E c \in ExtractedTree(k).pallets :
            /\ ExtractedTree(k).pallets = {c}
            /\ HasBannedKeyword(c)
            /\ ~HasAllowedKeyword(c)
            /\ InstalledExactly(k, {DestinationOf(k, c)}, 1)

\* the candidates of the tree job k extracted that have an allowed keyword
AllowedCandidates(k) == {p \in Candidates(ExtractedTree(k)) : HasAllowedKeyword(p)}

\* several candidates, each with an allowed or a banned keyword in its path
Partitionable(tree) ==
    /\ Cardinality(Candidates(tree)) >= 2
    /\ \A p \in Candidates(tree) : HasAllowedKeyword(p) \/ HasBannedKeyword(p)

\* C17: when there are several candidates, each with an allowed or a banned
\* keyword in its relative path, and exactly one has an allowed keyword,
\* the job ends Ok and has copied exactly one folder, the allowed
\* candidate, to the destination named after it; no banned candidate is
\* copied.
C17_KeywordFilterSelection ==
    \A k \in 1..Len(inst.tasks) :
        (/\ inst.pc[k] = "done"
         /\ Partitionable(ExtractedTree(k))
         /\ Cardinality(AllowedCandidates(k)) = 1)
        => InstalledExactly(k, {DestinationOf(k, p) : p \in AllowedCandidates(k)}, 1)

\* a job extracted Win/ and a banned sibling, both with pallet.json: it
\* ended Ok, Mods/Win is a directory and the sibling's destination is not
C17_Witness ==
    \E k \in 1..Len(inst.tasks) :
        /\ inst.pc[k] = "done"
        /\ Partitionable(ExtractedTree(k))
        /\ AllowedCandidates(k) = {<<"Win">>}
        /\ Get(inst.results[k]).result.tag = "Ok"
        /\ is_dir(fs, InstalledPath("Win"))
        /\ \E p \in Candidates(ExtractedTree(k)) :
            /\ HasBannedKeyword(p)
            /\ ~exists(fs, DestinationOf(k, p))

\* C18: when there are several candidates and the keyword filter retains
\* none (each has a banned keyword and no allowed one), the job ends with a
\* Fail result of reason NO_FILTERED_PALLET_FOUND, not Ok.
C18_NoFilteredPalletFails ==
    \A k \in 1..Len(inst.tasks) :
        (/\ inst.pc[k] = "done"
         /\ Partitionable(ExtractedTree(k))
         /\ AllowedCandidates(k) = {})
        => /\ Failed(k)
           /\ Get(inst.results[k]).result.reason = "NO_FILTERED_PALLET_FOUND"

\* C19 as stated: when there are several candidates and the keyword filter
\* retains more than one, the job ends with a Fail result of reason
\* TOO_MANY_FILTERED_PALLETS_FOUND and has copied nothing.
C19_TooManyFilteredFails ==
    \A k \in 1..Len(inst.tasks) :
        (/\ inst.pc[k] = "done"
         /\ Partitionable(ExtractedTree(k))
         /\ Cardinality(AllowedCandidates(k)) > 1)
        => /\ Failed(k)
           /\ Get(inst.results[k]).result.reason = "TOO_MANY_FILTERED_PALLETS_FOUND"
           /\ inst.written[k] = {}

\* C19 amended: when there are several candidates and the keyword filter
\* retains more than one, the job ends Ok: every retained candidate is
\* copied, the result lists the destination of each, and no other
\* candidate is copied.
C19_RetainedAllInstalled ==
    \A k \in 1..Len(inst.tasks) :
        (/\ inst.pc[k] = "done"
         /\ Partitionable(ExtractedTree(k))
         /\ Cardinality(AllowedCandidates(k)) > 1)
        => InstalledExactly(k, {DestinationOf(k, p) : p \in AllowedCandidates(k)},
                            Cardinality(AllowedCandidates(k)))

\* a job extracted Win/ and PC/, both with pallet.json, and copied both
C19_Witness ==
    \E k \in 1..Len(inst.tasks) :
        /\ inst.pc[k] = "done"
        /\ AllowedCandidates(k) = {<<"Win">>, <<"PC">>}
        /\ InstalledExactly(k, {InstalledPath("Win"), InstalledPath("PC")}, 2)

\* C20: the step of extract_and_install that resolves and installs a tree
\* without any pallet.json copies nothing and returns a Fail result of
\* reason NO_PALLET_FOUND; no exception leaves the job.
C20_NoPalletFound ==
    [][\A k \in 1..Len(inst.tasks) :
        (/\ inst.pc[k] = "extracted"
         /\ inst'.pc[k] # "extracted"
         /\ Candidates(ExtractedTree(k)) = {})
        => /\ inst'.pc[k] = "done"
           /\ inst'.results[k]
                = Some(InstallationResultFail(inst.tasks[k], "NO_PALLET_FOUND"))
           /\ inst'.written[k] = {}
           /\ fs' = fs]_vars

\* a job extracted a tree of two directories, none with pallet.json, and
\* ended with the Fail result; the mods folder is empty
C20_Witness ==
    \E k \in 1..Len(inst.tasks) :
        /\ Failed(k)
        /\ Cardinality(ExtractedTree(k).dirs) = 2
        /\ Candidates(ExtractedTree(k)) = {}
        /\ Get(inst.results[k]).result.reason = "NO_PALLET_FOUND"
        /\ \A n \in DirNames \cup Mods : ~exists(fs, InstalledPath(n))

(***************************************************************************)
(* main.py: _sync.  One run of the program is one sync cycle: it loads the *)
(* manager, validates, downloads what needs a download, records the Ok     *)
(* downloads, installs what needs an installation, records the Ok          *)
(* installations, prunes and destroys the extraction directories.  An      *)
(* exception ends the run where it is raised.  The runs follow each other, *)
(* and between two runs the files can change.                              *)
(***************************************************************************)
\* a mod of my_mods: ModWithModfile with its visible flag
SyncMod(m, live, visible) == [name_id |-> m, modfile_live |-> live, visible |-> visible]

\* Mod.is_available
is_available(mod) == mod.visible

\* filter_need_download_mods, from mod k on: get_platform raises
\* StopIteration for a mod without the platform
RECURSIVE FilterNeedDownloadFrom(_, _, _, _, _)
FilterNeedDownloadFrom(st, files, g, mods, k) ==
    IF k > Len(mods) THEN [exc |-> "none", mods |-> <<>>]
    ELSE IF ~IsSome(mods[k].modfile_live) THEN [exc |-> "StopIteration", mods |-> <<>>]
    ELSE LET rest == FilterNeedDownloadFrom(st, files, g, mods, k + 1)
         IN  IF rest.exc # "none" THEN rest
             ELSE IF needs_download(st, files, g, mods[k].name_id, Get(mods[k].modfile_live))
             THEN [exc |-> "none", mods |-> <<mods[k]>> \o rest.mods]
             ELSE rest

filter_need_download_mods(st, files, g, mods) == FilterNeedDownloadFrom(st, files, g, mods, 1)

\* generate_download_tasks: a task for each mod, with the mod's live file
generate_download_tasks(g, mods) ==
    [k \in 1..Len(mods) |-> DownloadTask(g, mods[k].name_id, Get(mods[k].modfile_live))]

\* a _sync that prunes right after validate()
_sync_pruning_first(statement, n) ==
    CASE statement = "from_file" -> "validate"
      [] statement = "validate" -> "remove_unsubscribed_mods"
      [] statement = "remove_unsubscribed_mods" -> "needs_download"
      [] statement = "needs_download" ->
            IF n > 0 THEN "download" ELSE "generate_mod_install_tasks"
      [] statement = "download" -> "update_downloaded_mods"
      [] statement = "update_downloaded_mods" -> "generate_mod_install_tasks"
      [] statement = "generate_mod_install_tasks" -> IF n > 0 THEN "install" ELSE "done"
      [] statement = "install" -> "update_installed_mods"
      [] statement = "update_installed_mods" -> "done"

\* the control flow of _sync: the statement that follows a statement, n
\* being the length of the list the statement computed
_sync(statement, n) ==
    CASE statement = "from_file" -> "validate"
      [] statement = "validate" -> "needs_download"
      [] statement = "needs_download" ->
            IF n > 0 THEN "download" ELSE "generate_mod_install_tasks"
      [] statement = "download" -> "update_downloaded_mods"
      [] statement = "update_downloaded_mods" -> "generate_mod_install_tasks"
      [] statement = "generate_mod_install_tasks" ->
            IF n > 0 THEN "install" ELSE "remove_unsubscribed_mods"
      [] statement = "install" -> "update_installed_mods"
      [] statement = "update_installed_mods" -> "remove_unsubscribed_mods"
      [] statement = "remove_unsubscribed_mods" -> "done"

\* the subscriptions of a run: each mod at most once, in the order in
\* which the API lists them
ModRank == [m1 |-> 1, m2 |-> 2]
SyncSubscriptions ==
    {mods \in SeqsUpTo({SyncMod(m, live, visible) :
                            m \in Mods,
                            live \in {None} \cup {Some(id) : id \in FileIds},
                            visible \in BOOLEAN},
                       Cardinality(Mods)) :
        \A j, k \in 1..Len(mods) : j < k => ModRank[mods[j].name_id] < ModRank[mods[k].name_id]}

\* the archives the mod files of a run are: one without a pallet.json, one
\* with the pallet.json at its root, one with a single content folder, one
\* with a folder for each platform, one with folders of the banned
\* platform only
SyncTrees ==
    {Tree({}, {}),
     Tree({}, {<<>>}),
     Tree({<<"Win">>}, {<<"Win">>}),
     Tree({<<"Win">>, <<"Quest">>}, {<<"Win">>, <<"Quest">>}),
     Tree({<<"Quest">>, <<"Oculus">>}, {<<"Quest">>, <<"Oculus">>})}

SyncArchives ==
    {z \in [Contents -> {None} \cup {Some(t) : t \in SyncTrees}] : z[0] = None}

\* the first run of a new installation: no document, no file
SyncInit ==
    /\ storage = EmptyStorage
    /\ persisted = model_dump_json(EmptyStorage)
    /\ fs = [p \in Paths |-> Absent]
    /\ last = Call("init", "none", <<>>, <<>>)
    /\ dl = IdleDownload
    /\ \E z \in SyncArchives : inst = [IdleInstall EXCEPT !.zip = z]
    /\ \E mods \in SyncSubscriptions : sync = [IdleSync EXCEPT !.my_mods = mods]

At(statement) == sync.pc = statement

\* the run makes a call on the manager and goes on to the next statement,
\* or ends with the exception of the call
Proceed(op, exc, n) ==
    [sync EXCEPT !.pc = IF exc = "none" THEN _sync(op, n) ELSE "aborted",
                 !.trace = Append(sync.trace, op)]

\* the program is started
SyncStarts ==
    /\ sync.pc \in {"idle", "done", "aborted"}
    /\ sync.cycle < MaxCycles
    /\ sync' = [sync EXCEPT !.pc = "from_file", !.cycle = sync.cycle + 1,
                            !.trace = <<>>, !.tampered = 0, !.all_ok = TRUE,
                            !.settled = /\ sync.pc = "done"
                                        /\ sync.all_ok
                                        /\ sync.tampered = 0]
    /\ dl' = IdleDownload
    /\ inst' = [IdleInstall EXCEPT !.zip = inst.zip, !.scratch = inst.scratch]
    /\ UNCHANGED <<storage, persisted, fs, last>>

\* between two runs an archive is altered, deleted or replaced by a
\* directory, or an installed folder is deleted
Tamper ==
    /\ sync.pc \in {"idle", "done", "aborted"}
    /\ sync.tampered < MaxTamper
    /\ \/ \E p \in ArchivePaths, v \in {Absent, Dir} \cup {File(c) : c \in Contents} :
            /\ v # fs[p]
            /\ fs' = [fs EXCEPT ![p] = v]
       \/ \E p \in InstallPaths :
            /\ exists(fs, p)
            /\ fs' = nuke_path(fs, p)
    /\ sync' = [sync EXCEPT !.tampered = sync.tampered + 1]
    /\ last' = Outside
    /\ UNCHANGED <<storage, persisted, dl, inst>>

\* between two runs the user unsubscribes from a mod: my_mods of the next
\* run is without it
Unsubscribe ==
    /\ sync.pc \in {"done", "aborted"}
    /\ sync.tampered < MaxTamper
    /\ \E k \in 1..Len(sync.my_mods) :
        sync' = [sync EXCEPT !.my_mods = SubSeq(sync.my_mods, 1, k - 1)
                                          \o SubSeq(sync.my_mods, k + 1, Len(sync.my_mods)),
                             !.tampered = sync.tampered + 1]
    /\ UNCHANGED <<storage, persisted, fs, last, dl, inst>>

\* between two runs another file of a mod goes live: modfile_live of the
\* mod's platform is the new id in the next run
Publish ==
    /\ sync.pc \in {"done", "aborted"}
    /\ sync.tampered < MaxTamper
    /\ \E k \in 1..Len(sync.my_mods), id \in FileIds :
        /\ IsSome(sync.my_mods[k].modfile_live)
        /\ Get(sync.my_mods[k].modfile_live) # id
        /\ sync' = [sync EXCEPT !.my_mods[k].modfile_live = Some(id),
                                !.tampered = sync.tampered + 1]
    /\ UNCHANGED <<storage, persisted, fs, last, dl, inst>>

\* line 119
SyncFromFile ==
    /\ At("from_file")
    /\ storage' = parse_file(persisted)
    /\ persisted' = model_dump_json(storage')
    /\ last' = Call("from_file", "none", <<>>, <<>>)
    /\ sync' = [Proceed("from_file", "none", 0) EXCEPT !.read = persisted]
    /\ UNCHANGED <<fs, dl, inst>>

\* line 120
SyncValidate ==
    /\ At("validate")
    /\ storage' = validate(storage, fs)
    /\ last' = Call("validate", "none",
                    [loaded |-> last.op = "from_file", again |-> last.op = "validate"],
                    <<>>)
    /\ sync' = Proceed("validate", "none", 0)
    /\ UNCHANGED <<persisted, fs, dl, inst>>

\* lines 123-132, with main line 266: the mods of available_mods that need
\* a download, their tasks, and download() is called with them.  Recorded:
\* the name_ids of the mods that need a download, as a list
SyncNeedsDownload ==
    /\ At("needs_download")
    /\ LET available_mods == SelectSeq(sync.my_mods, is_available)
           mods_need_download ==
               filter_need_download_mods(storage, fs, "bonelab", available_mods)
           download_tasks == generate_download_tasks("bonelab", mods_need_download.mods)
       IN  /\ last' = Call("needs_download", mods_need_download.exc, <<>>,
                           [k \in 1..Len(mods_need_download.mods) |->
                                mods_need_download.mods[k].name_id])
           /\ sync' = Proceed("needs_download", mods_need_download.exc,
                              Len(mods_need_download.mods))
           /\ dl' = IF sync'.pc = "download"
                    THEN [tasks |-> download_tasks,
                          pc |-> [k \in 1..Len(download_tasks) |-> "created"],
                          results |-> [k \in 1..Len(download_tasks) |-> None],
                          outcome |-> "running", returned |-> <<>>]
                    ELSE dl
    /\ UNCHANGED <<storage, persisted, fs, inst>>

\* line 132: download() raised
SyncDownloadRaised ==
    /\ At("download")
    /\ dl.outcome = "raised"
    /\ sync' = [sync EXCEPT !.pc = "aborted"]
    /\ UNCHANGED <<storage, persisted, fs, last, dl, inst>>

\* line 132: download() returned its results
SyncDownloadReturned ==
    /\ At("download")
    /\ dl.outcome = "returned"
    /\ sync' = [sync EXCEPT !.pc = _sync("download", Len(dl.returned)),
                            !.all_ok = sync.all_ok /\ ~HasNonOk(dl.returned)]
    /\ UNCHANGED <<storage, persisted, fs, last, dl, inst>>

\* lines 139-147: the Ok results are recorded
SyncUpdateDownloaded ==
    /\ At("update_downloaded_mods")
    /\ LET download_results_ok == SelectSeq(dl.returned, is_ok)
           out == update_downloaded_mods(storage, fs, download_results_ok)
       IN  /\ storage' = out.storage
           /\ persisted' = IF out.exc = "none" THEN model_dump_json(out.storage)
                           ELSE persisted
           /\ last' = Call("update_downloaded_mods", out.exc,
                           HasNonOk(download_results_ok), out.named)
           /\ sync' = Proceed("update_downloaded_mods", out.exc, 0)
    /\ dl' = IdleDownload
    /\ UNCHANGED <<fs, inst>>

\* lines 149-158: the installation tasks of my_mods, and
\* install_downloaded_mods is called with them
SyncGenerateTasks ==
    /\ At("generate_mod_install_tasks")
    /\ LET out == generate_mod_install_tasks(storage, fs, "bonelab", sync.my_mods)
       IN  /\ last' = Call("generate_mod_install_tasks", out.exc, <<>>, <<>>)
           /\ sync' = Proceed("generate_mod_install_tasks", out.exc, Len(out.tasks))
           /\ inst' = IF sync'.pc = "install"
                      THEN [tasks |-> out.tasks,
                            pc |-> [k \in 1..Len(out.tasks) |-> "queued"],
                            results |-> [k \in 1..Len(out.tasks) |-> None],
                            written |-> [k \in 1..Len(out.tasks) |-> {}],
                            scratch |-> inst.scratch, zip |-> inst.zip,
                            outcome |-> "running", returned |-> <<>>]
                      ELSE inst
    /\ UNCHANGED <<storage, persisted, fs, dl>>

\* line 158: install_downloaded_mods raised
SyncInstallRaised ==
    /\ At("install")
    /\ inst.outcome = "raised"
    /\ sync' = [sync EXCEPT !.pc = "aborted"]
    /\ UNCHANGED <<storage, persisted, fs, last, dl, inst>>

\* line 158: install_downloaded_mods returned its results
SyncInstallReturned ==
    /\ At("install")
    /\ inst.outcome = "returned"
    /\ sync' = [sync EXCEPT !.pc = _sync("install", Len(inst.returned)),
                            !.all_ok = sync.all_ok /\ ~HasNonOk(inst.returned)]
    /\ UNCHANGED <<storage, persisted, fs, last, dl, inst>>

\* lines 163-174: the Ok results are recorded
SyncUpdateInstalled ==
    /\ At("update_installed_mods")
    /\ LET installed_ok == SelectSeq(inst.returned, is_ok)
           out == update_installed_mods(storage, installed_ok)
       IN  /\ storage' = out.storage
           /\ persisted' = IF out.exc = "none" THEN model_dump_json(out.storage)
                           ELSE persisted
           /\ last' = Call("update_installed_mods", out.exc,
                           HasNonOk(installed_ok), out.named)
           /\ sync' = Proceed("update_installed_mods", out.exc, 0)
    /\ inst' = [IdleInstall EXCEPT !.zip = inst.zip, !.scratch = inst.scratch]
    /\ UNCHANGED <<fs, dl>>

\* lines 177-182: the mods that are not in my_mods are pruned, then
\* nuke_path(EXTRACTIONS_PATH) destroys the extraction directories
SyncRemoveUnsubscribed ==
    /\ At("remove_unsubscribed_mods")
    /\ LET out == remove_unsubscribed_mods(storage, fs, "bonelab", sync.my_mods)
       IN  /\ storage' = out.storage
           /\ persisted' = IF out.saved THEN model_dump_json(out.storage) ELSE persisted
           /\ fs' = out.files
           /\ last' = Call("remove_unsubscribed_mods", "none",
                           [game |-> "bonelab",
                            subscribed |-> {sync.my_mods[k].name_id :
                                                k \in 1..Len(sync.my_mods)}],
                           [removed |-> out.ret,
                            deleted |-> {p \in Paths :
                                            exists(fs, p) /\ ~exists(out.files, p)}])
    /\ sync' = Proceed("remove_unsubscribed_mods", "none", 0)
    /\ inst' = [inst EXCEPT !.scratch = [stem \in Mods |-> None]]
    /\ UNCHANGED dl

NextSync ==
    \/ SyncStarts
    \/ Tamper
    \/ Unsubscribe
    \/ Publish
    \/ SyncFromFile
    \/ SyncValidate
    \/ SyncNeedsDownload
    \/ OpenDestination
    \/ ReceiveResponse
    \/ ReceiveChunk
    \/ StreamFails
    \/ StreamEnds
    \/ DownloadReturns
    \/ DownloadRaises
    \/ SyncDownloadRaised
    \/ SyncDownloadReturned
    \/ SyncUpdateDownloaded
    \/ SyncGenerateTasks
    \/ ExtractMod
    \/ InstallMod
    \/ PoolMapReturns
    \/ PoolMapRaises
    \/ SyncInstallRaised
    \/ SyncInstallReturned
    \/ SyncUpdateInstalled
    \/ SyncRemoveUnsubscribed

SpecSync == SyncInit /\ [][NextSync]_vars

(***************************************************************************)
(* Properties of the sync cycle                                            *)
(***************************************************************************)
\* the calls of the run on the manager that C14 names, in the order made
StoreCalls == SelectSeq(sync.trace, LAMBDA op : op # "needs_download")

PhaseRank ==
    [from_file |-> 0, validate |-> 1, update_downloaded_mods |-> 2,
     generate_mod_install_tasks |-> 3, update_installed_mods |-> 4,
     remove_unsubscribed_mods |-> 5]

LastCall == StoreCalls[Len(StoreCalls)]

\* C14 (Sync phase ordering): the calls a run makes on the manager follow
\* the order validate, update_downloaded_mods, generate_mod_install_tasks,
\* update_installed_mods, remove_unsubscribed_mods, each at most once; the
\* downloads run between validate and update_downloaded_mods, which waits
\* for download() to have returned; the installations run between
\* generate_mod_install_tasks and update_installed_mods, which waits for
\* install_downloaded_mods to have returned; a run that completes made
\* remove_unsubscribed_mods its last call; and no step changes the store
\* or its document while a download or an installation phase is running.
C14_SyncPhaseOrdering ==
    /\ [](/\ \A i, j \in 1..Len(StoreCalls) :
                i < j => PhaseRank[StoreCalls[i]] < PhaseRank[StoreCalls[j]]
          /\ Len(StoreCalls) > 1 => StoreCalls[2] = "validate"
          /\ dl.outcome = "running" => At("download") /\ LastCall = "validate"
          /\ inst.outcome = "running" =>
                At("install") /\ LastCall = "generate_mod_install_tasks"
          /\ At("update_downloaded_mods") =>
                /\ dl.outcome = "returned"
                /\ \A k \in 1..Len(dl.tasks) : dl.pc[k] = "returned"
          /\ At("update_installed_mods") =>
                /\ inst.outcome = "returned"
                /\ \A k \in 1..Len(inst.tasks) : inst.pc[k] = "done"
          /\ At("done") => LastCall = "remove_unsubscribed_mods")
    /\ [][(storage' # storage \/ persisted' # persisted) =>
            /\ dl.outcome # "running" /\ inst.outcome # "running"
            /\ dl'.outcome # "running" /\ inst'.outcome # "running"]_vars

\* a run completed after both pipelines ran
C14_Witness ==
    /\ At("done")
    /\ StoreCalls = <<"from_file", "validate", "update_downloaded_mods",
                      "generate_mod_install_tasks", "update_installed_mods",
                      "remove_unsubscribed_mods">>
    /\ \E m \in Mods : InstalledOnDisk(storage, fs, "bonelab", m, 1)

\* the run has computed the mods that need a download (last.ret), and no
\* download has started yet
NeedComputed ==
    /\ last.op = "needs_download"
    /\ last.exc = "none"
    /\ \/ At("generate_mod_install_tasks")
       \/ At("download") /\ \A k \in 1..Len(dl.tasks) : dl.pc[k] = "created"

\* the document the run read records a download of the live file of the
\* subscribed mod, and the archive is on disk as it was recorded
RecordedAndUnchanged(mod) ==
    /\ IsSome(mod.modfile_live)
    /\ RecordsDownloaded(parse_file(sync.read), "bonelab", mod.name_id,
                         Get(mod.modfile_live))
    /\ ArchiveIntact(fs, Get(DownloadedOf(parse_file(sync.read), "bonelab", mod.name_id)))

\* C15 (No re-download of a recorded file): when a run computes the mods
\* that need a download, a subscribed mod whose live file an earlier run
\* recorded as downloaded (the document the run read says so), with the
\* archive unchanged on disk, is not among them.
C15_NoRedownload ==
    NeedComputed =>
        \A k \in 1..Len(sync.my_mods) :
            RecordedAndUnchanged(sync.my_mods[k]) =>
                \A j \in 1..Len(last.ret) : last.ret[j] # sync.my_mods[k].name_id

\* the second run finds the download of a visible mod recorded and unchanged
C15_Witness ==
    /\ NeedComputed
    /\ sync.cycle = 2
    /\ \E k \in 1..Len(sync.my_mods) :
        /\ sync.my_mods[k].visible
        /\ RecordedAndUnchanged(sync.my_mods[k])
        /\ \A j \in 1..Len(last.ret) : last.ret[j] # sync.my_mods[k].name_id

\* the Ok results of the download phase, which the run records
DownloadResultsOk == SelectSeq(dl.returned, is_ok)

\* the entry of a mod in a store, None without one
EntryOf(st, m) == read_managed_mod(st, "bonelab", m)

\* C21 (Last-downloaded-wins): when the run's update_downloaded_mods
\* returns, the entry of the mod of each Ok result has as downloaded_mod the
\* result's mod-file id, its file path and the md5 of the file, whatever
\* the entry was before (the entry is created when there was none), its
\* installed_mod is what it was; the entry of every other mod is what it
\* was; and the document is the store the call left.
C21_LastDownloadedWins ==
    [][(At("update_downloaded_mods") /\ last'.op = "update_downloaded_mods"
            /\ last'.exc = "none") =>
        /\ \A k \in 1..Len(DownloadResultsOk) :
            LET r == DownloadResultsOk[k]
                path == r.task.download_file_path
                old == EntryOf(storage, r.task.mod)
                new == EntryOf(storage', r.task.mod)
            IN  /\ IsSome(new)
                /\ Get(new).downloaded_mod =
                        Some(DownloadedManagedMod(r.task.mod_file, path, _hash_md5(fs, path)))
                /\ Get(new).installed_mod =
                        IF IsSome(old) THEN Get(old).installed_mod ELSE None
        /\ \A m \in Mods \ {DownloadResultsOk[k].task.mod : k \in 1..Len(DownloadResultsOk)} :
                EntryOf(storage', m) = EntryOf(storage, m)
        /\ persisted' = model_dump_json(storage')]_vars

\* update_downloaded_mods has replaced the downloaded_mod of another
\* mod-file id, which the document the run read recorded and which is
\* still the installed one, next to the entry of another mod
C21_Witness ==
    /\ last.op = "update_downloaded_mods"
    /\ last.exc = "none"
    /\ \E m \in Mods, id \in FileIds :
        /\ RecordsDownloaded(parse_file(sync.read), "bonelab", m, id)
        /\ ~RecordsDownloaded(storage, "bonelab", m, id)
        /\ IsSome(DownloadedOf(storage, "bonelab", m))
        /\ RecordsInstalled(storage, "bonelab", m, id)
        /\ \E other \in Mods \ {m} : IsSome(EntryOf(storage, other))

\* the name_ids of my_mods
Subscribed == {sync.my_mods[k].name_id : k \in 1..Len(sync.my_mods)}

\* C24: the run's remove_unsubscribed_mods returns exactly the managed
\* name_ids of the game that are not subscribed; the entry of every mod
\* that is still subscribed, and every file that entry records, are after
\* the call what they were before it; and when the game has no managed mod
\* the call returns the empty set and the store, the document and the
\* files are unchanged.
C24_PruneFrame ==
    [][(At("remove_unsubscribed_mods") /\ last'.op = "remove_unsubscribed_mods") =>
        /\ last'.ret.removed = ManagedOf(storage, "bonelab") \ Subscribed
        /\ \A m \in ManagedOf(storage, "bonelab") \cap Subscribed :
            /\ EntryOf(storage', m) = EntryOf(storage, m)
            /\ \A p \in RecordedPaths(storage["bonelab"][m]) : fs'[p] = fs[p]
        /\ ManagedOf(storage, "bonelab") = {} =>
            /\ last'.ret.removed = {}
            /\ storage' = storage
            /\ persisted' = persisted
            /\ fs' = fs]_vars

\* the Ok results of the install phase, which the run records
InstalledOk == SelectSeq(inst.returned, is_ok)

\* C25: the results the run is about to pass to update_downloaded_mods and
\* to update_installed_mods are Ok results, every installation result among
\* them is of a mod that has a ManagedMod in the store, and the two calls
\* never raise.
C25_NoContractViolation ==
    /\ At("update_downloaded_mods") =>
            \A k \in 1..Len(DownloadResultsOk) : DownloadResultsOk[k].result.tag = "Ok"
    /\ At("update_installed_mods") =>
            \A k \in 1..Len(InstalledOk) :
                /\ InstalledOk[k].result.tag = "Ok"
                /\ IsSome(EntryOf(storage, InstalledOk[k].task.mod_name_id))
    /\ last.op \in {"update_downloaded_mods", "update_installed_mods"} => last.exc = "none"

\* of the two results of the download phase one is Ok and is about to be
\* recorded, the other is not
C25_Witness ==
    /\ At("update_downloaded_mods")
    /\ Len(dl.returned) = 2
    /\ Len(DownloadResultsOk) = 1

\* C26 (Lifecycle of installed_mod): when the run's update_installed_mods
\* returns, the entry of the mod of each Ok result records the result's
\* mod-file id as installed and as downloaded, and the path of its
\* downloaded_mod is the archive the installation task was built from; and
\* the call sets the installed_mod of no other entry.
C26_InstalledFollowsDownloaded ==
    [][(At("update_installed_mods") /\ last'.op = "update_installed_mods") =>
        /\ \A k \in 1..Len(InstalledOk) :
            LET task == InstalledOk[k].task
            IN  /\ RecordsInstalled(storage', "bonelab", task.mod_name_id, task.mod_file_id)
                /\ RecordsDownloaded(storage', "bonelab", task.mod_name_id, task.mod_file_id)
                /\ Get(DownloadedOf(storage', "bonelab", task.mod_name_id)).file_path
                        = task.downloaded_path
        /\ \A m \in Mods \ {InstalledOk[k].task.mod_name_id : k \in 1..Len(InstalledOk)} :
                InstalledOf(storage', "bonelab", m) = InstalledOf(storage, "bonelab", m)]_vars

\* update_installed_mods has recorded the installation of a mod-file that
\* the document the run read did not record as installed
C26_Witness ==
    /\ last.op = "update_installed_mods"
    /\ last.exc = "none"
    /\ \E m \in Mods, id \in FileIds :
        /\ RecordsInstalled(storage, "bonelab", m, id)
        /\ RecordsDownloaded(storage, "bonelab", m, id)
        /\ ~RecordsInstalled(parse_file(sync.read), "bonelab", m, id)

\* C28: every Ok result of the install phase has an installed path, and no
\* entry of the store records an installation with an empty installed_paths.
C28_OkHasInstalledPath ==
    /\ \A k \in 1..Len(inst.tasks) :
            (IsSome(inst.results[k]) /\ is_ok(Get(inst.results[k]))) =>
                Len(Get(inst.results[k]).result.installed_paths) > 0
    /\ \A m \in Mods :
            IsSome(InstalledOf(storage, "bonelab", m)) =>
                Len(Get(InstalledOf(storage, "bonelab", m)).installed_paths) > 0

\* C29: two installation tasks of a run are of different mods, their
\* extraction directories differ, and no destination folder is written by
\* both.
C29_DisjointDirectories ==
    \A j, k \in 1..Len(inst.tasks) :
        j # k =>
            /\ inst.tasks[j].mod_name_id # inst.tasks[k].mod_name_id
            /\ Stem(inst.tasks[j].downloaded_path) # Stem(inst.tasks[k].downloaded_path)
            /\ inst.written[j] \cap inst.written[k] = {}

\* C30: while the run is in its download phase or has just left it, the
\* archive at the destination of a task that ended in an Error result is,
\* if a downloaded_mod of the store records that path, on disk as recorded
\* (validate() kept the record, so the archive matched when the phase began).
C30_FailedDownloadKeepsArchive ==
    (At("download") \/ At("update_downloaded_mods")) =>
        \A k \in 1..Len(dl.tasks) :
            (IsSome(dl.results[k]) /\ ~is_ok(Get(dl.results[k]))) =>
                \A m \in Mods :
                    (/\ IsSome(DownloadedOf(storage, "bonelab", m))
                     /\ Get(DownloadedOf(storage, "bonelab", m)).file_path
                            = dl.tasks[k].download_file_path) =>
                        ArchiveIntact(fs, Get(DownloadedOf(storage, "bonelab", m)))

\* the run made the call on the manager
Called(op) == op \in {sync.trace[k] : k \in 1..Len(sync.trace)}

\* C31 (Sync reaches a fixpoint): a run that follows, with no change of the
\* files, of the subscriptions or of the live files in between, a run that
\* completed with every download and every installation Ok, finds no mod
\* that needs a download, builds no installation task, prunes nothing and
\* deletes nothing, does not end with an exception, and once it has loaded
\* the store, the document and the entry of every mod in the store stay
\* what they were in the document when the run began.
C31_SyncFixpoint ==
    sync.settled =>
        /\ ~At("download") /\ ~At("update_downloaded_mods")
        /\ ~At("install") /\ ~At("update_installed_mods")
        /\ ~At("aborted")
        /\ ~Called("update_downloaded_mods") /\ ~Called("update_installed_mods")
        /\ (Called("needs_download") /\ last.op = "needs_download") => last.ret = <<>>
        /\ (Called("remove_unsubscribed_mods") /\ last.op = "remove_unsubscribed_mods") =>
                last.ret.removed = {} /\ last.ret.deleted = {}
        /\ (~At("from_file") =>
                /\ persisted = sync.read
                /\ \A m \in Mods : EntryOf(storage, m) = EntryOf(parse_file(sync.read), m))

\* a run has completed that followed, with nothing changed in between, a
\* run without a failure, and both mods are downloaded and installed
C31_Witness ==
    /\ sync.settled
    /\ At("done")
    /\ \A m \in Mods : \E id \in FileIds :
            /\ RecordsDownloaded(storage, "bonelab", m, id)
            /\ InstalledOnDisk(storage, fs, "bonelab", m, id)
            /\ Len(Get(InstalledOf(storage, "bonelab", m)).installed_paths) > 0

\* the sequence lists each element of the set once and nothing else
ListsOnce(seq, set) ==
    /\ {seq[i] : i \in 1..Len(seq)} = set
    /\ Len(seq) = Cardinality(set)

\* the directories of the tree that lie below p
Descendants(tree, p) ==
    {q \in tree.dirs : Len(q) > Len(p) /\ SubSeq(q, 1, Len(p)) = p}

\* C32: in whatever order the entries are listed, the candidates found in
\* the tree a job extracted are the directories that hold pallet.json and
\* lie below no other such directory, each listed once; no directory below
\* a candidate is a candidate, whether it holds pallet.json or not; and a
\* job that is over has copied to the destinations of candidates only.
C32_SearchStopsAtFirstMatch ==
    \A k \in 1..Len(inst.tasks) :
        Extracted(k) =>
            /\ \A order \in Orders(ExtractedTree(k)) :
                LET found == _locate_possible_content_folders(ExtractedTree(k), order, <<>>)
                IN  /\ ListsOnce(found, Candidates(ExtractedTree(k)))
                    /\ \A i, j \in 1..Len(found) :
                            found[j] \notin Descendants(ExtractedTree(k), found[i])
            /\ inst.pc[k] = "done" => inst.written[k] \subseteq CandidateDestinations(k)

\* a job extracted Win/pallet.json and Win/Quest/pallet.json: it is over,
\* Ok, with Mods/Win copied and no Mods/Quest
C32_Witness ==
    \E k \in 1..Len(inst.tasks) :
        /\ inst.pc[k] = "done"
        /\ ExtractedTree(k) = Tree({<<"Win">>, <<"Win", "Quest">>},
                                   {<<"Win">>, <<"Win", "Quest">>})
        /\ InstalledExactly(k, {InstalledPath("Win")}, 1)
        /\ ~exists(fs, InstalledPath("Quest"))

(***************************************************************************)
(* install_downloaded_mods() called twice in succession on the same tasks, *)
(* with the archives unchanged, on a mods folder that can hold something   *)
(* at a destination already.  last records the call of                     *)
(* install_downloaded_mods that is over: the files before it as its        *)
(* argument and the files it left as its result; before the first call is  *)
(* over both are the files the first call found.                           *)
(***************************************************************************)
\* the tasks of the two calls: of one mod, or of both
ReinstallTaskLists ==
    {ts \in InstallationTaskLists :
        \A k \in 1..Len(ts) : ts[k].mod_file_id = 1 /\ ModRank[ts[k].mod_name_id] = k}

\* what the first call can find in the mods folder: nothing, or at one
\* path an empty directory, a directory with files in it or a file
FoundInModsFolder ==
    {[p \in Paths |-> Absent]} \cup
    {[p \in Paths |-> IF p = q THEN v ELSE Absent] :
        q \in {InstalledPath(n) : n \in DirNames \cup Mods}, v \in {Dir, Stale, File(1)}}

ReinstallInit ==
    /\ storage = EmptyStorage
    /\ persisted = model_dump_json(EmptyStorage)
    /\ dl = IdleDownload
    /\ sync = IdleSync
    /\ \E ts \in ReinstallTaskLists, found \in FoundInModsFolder :
        \E at \in [{ts[k].downloaded_path : k \in 1..Len(ts)} -> {File(c) : c \in Contents}] :
            /\ fs = [p \in Paths |-> IF p \in DOMAIN at THEN at[p] ELSE found[p]]
            /\ last = Call("init", "none", fs, fs)
            /\ \E z \in Archives :
                /\ \A c \in Contents : IsSome(z[c]) => \E p \in DOMAIN at : at[p] = File(c)
                /\ inst = [tasks |-> ts, pc |-> [k \in 1..Len(ts) |-> "queued"],
                           results |-> [k \in 1..Len(ts) |-> None],
                           written |-> [k \in 1..Len(ts) |-> {}],
                           scratch |-> [stem \in Mods |-> None], zip |-> z,
                           outcome |-> "running", returned |-> <<>>]

\* the first call is over, returned or raised; install_downloaded_mods is
\* called again with the same tasks
InstallAgain ==
    /\ inst.outcome \in {"returned", "raised"}
    /\ last.op = "init"
    /\ last' = Call("install_downloaded_mods",
                    IF inst.outcome = "raised" THEN "Exception" ELSE "none", last.arg, fs)
    /\ inst' = [inst EXCEPT !.pc = [k \in 1..Len(inst.tasks) |-> "queued"],
                            !.results = [k \in 1..Len(inst.tasks) |-> None],
                            !.written = [k \in 1..Len(inst.tasks) |-> {}],
                            !.outcome = "running",
                            !.returned = <<>>]
    /\ UNCHANGED <<storage, persisted, fs, dl, sync>>

NextReinstall ==
    \/ ExtractMod
    \/ InstallMod
    \/ PoolMapReturns
    \/ PoolMapRaises
    \/ InstallAgain

SpecReinstall == ReinstallInit /\ [][NextReinstall]_vars

\* the call of install_downloaded_mods under way is the second
SecondCall == last.op = "install_downloaded_mods"

\* C33: whatever was at the destination before, a directory with files in
\* it included, after a job has copied a content folder the destination is
\* the directory the copy makes, with nothing of what was there; and while
\* the same archives are installed a second time, and when they have been,
\* the files are as the first installation left them.
C33_OverwriteInstall ==
    /\ \A k \in 1..Len(inst.tasks) :
            inst.pc[k] = "done" => \A d \in inst.written[k] : fs[d] = Dir
    /\ SecondCall => fs = last.ret

\* the second call has returned; a job of it copied again to a destination
\* where the first call had found a directory with files in it and had
\* left its copy
C33_Witness ==
    /\ SecondCall
    /\ inst.outcome = "returned"
    /\ \E k \in 1..Len(inst.tasks) : \E d \in inst.written[k] :
            /\ Get(inst.results[k]).result.tag = "Ok"
            /\ last.arg[d] = Stale
            /\ last.ret[d] = Dir
            /\ fs[d] = Dir

\* the directory names that spell, in whatever case, an allowed keyword,
\* and those that spell a banned one
AllowedNames == {"Win", "PC", "PCQuest"}
BannedNames == {"Quest", "Oculus", "PCQuest"}
NamesOf(p) == {p[i] : i \in 1..Len(p)}

\* C34: for every candidate of the tree a job extracted, the predicate of
\* the platform filter is true when a name on the candidate's path from
\* the extraction directory spells, in whatever case, an allowed keyword,
\* a banned keyword on the path or not; it is false when no name spells an
\* allowed keyword and one spells a banned keyword; it raises otherwise.
\* A job of several candidates that the filter partitions has copied each
\* candidate that has both kinds of keyword.
C34_AllowedBeforeBanned ==
    \A k \in 1..Len(inst.tasks) :
        Extracted(k) =>
            /\ \A p \in Candidates(ExtractedTree(k)) :
                    predicate(p) =
                        IF NamesOf(p) \cap AllowedNames # {} THEN "True"
                        ELSE IF NamesOf(p) \cap BannedNames # {} THEN "False"
                        ELSE "ValueError"
            /\ (inst.pc[k] = "done" /\ Partitionable(ExtractedTree(k))) =>
                    \A p \in Candidates(ExtractedTree(k)) :
                        (NamesOf(p) \cap AllowedNames # {} /\ NamesOf(p) \cap BannedNames # {})
                        => /\ Get(inst.results[k]).result.tag = "Ok"
                           /\ DestinationOf(k, p) \in inst.written[k]
                           /\ is_dir(fs, DestinationOf(k, p))

\* a job extracted PCQuest/pallet.json and Quest/pallet.json: it is over,
\* Ok, with Mods/PCQuest copied and no Mods/Quest
C34_Witness ==
    \E k \in 1..Len(inst.tasks) :
        /\ inst.pc[k] = "done"
        /\ Candidates(ExtractedTree(k)) = {<<"PCQuest">>, <<"Quest">>}
        /\ InstalledExactly(k, {InstalledPath("PCQuest")}, 1)
        /\ ~exists(fs, InstalledPath("Quest"))

====
